---- MODULE Spec2Model ----
(***************************************************************************)
(* Vics Tower Defense: the simulation loop, the wave/combat state machine, *)
(* the upgrade/skill economy and the save system, as a state machine.      *)
(*                                                                         *)
(* src/ holds several revisions of game.js.  The model follows the two     *)
(* that carry the save system: Revision 8 (src/game.js) and Revision 12    *)
(* (src/unnamed/part_002, the skill-tree revision).  The variable          *)
(* `revision` says which of the two is running; where they differ the      *)
(* definitions branch on it.                                               *)
(*                                                                         *)
(* Numbers.  The code computes in IEEE doubles; the model in integers:     *)
(*   hp and damage        in twentieths  (type.hp * (1 + 0.15*wave) and    *)
(*                        damage * 2.5 / * 0.5 are then exact),            *)
(*   fireRate             in hundredths  (1.2 -> 120, +0.15 -> +15),       *)
(*   crit                 in halves      (5 -> 10, meta bonus 0.5 -> 1),   *)
(*   gold, range, speed, castle hp, levels, waves: as they are.            *)
(*                                                                         *)
(* Geometry and wall-clock time (positions, distances, now()) are not      *)
(* state of the model: what they decide in one update (a spawn timer       *)
(* expiring, the hero having a target in range and being allowed to fire,  *)
(* a crit roll, an enemy arriving at a waypoint, a projectile touching an  *)
(* enemy or timing out) is an input of the step, chosen from every value   *)
(* the code could see.  The one exception is the family of behaviours      *)
(* "clock" of SpecShots, where now() is the variable `clock`, every frame  *)
(* advances it and the guard of Hero.shootAt is computed from it.          *)
(***************************************************************************)
EXTENDS Integers, Sequences, FiniteSets, TLC

VARIABLES
    revision,       \* 8: src/game.js, 12: src/unnamed/part_002
    page,           \* "ready", or "crashed": initGame threw, no listener was attached
    TDState,        \* the TDState object
    UpgradeLevels,  \* UpgradeManager.levels
    SkillLevels,    \* SkillManager.levels (Revision 12)
    MetaUpgrades,   \* MetaUpgrades: gems and the three meta levels
    localStorage,   \* the two keys the game uses
    gamePath,       \* the wave generateNewPath last built gamePath for (0: still empty)
    timers,         \* pending setTimeout callbacks (rapid-fire follow-up shots)
    skillsModal,    \* the skill-tree modal: shown?, and the nodes that got an onclick
    animationFrameId, \* the gameLoop callbacks requestAnimationFrame holds (0 or 1)
    clock,          \* performance.now() in ms, where the model follows it (see below)
    dt,             \* the dt of the last call of update, in ms (0: none yet)
    canvasHeight,   \* the height setupCanvas read, in px
    startButton,    \* style.display of #start-button: "block" or "none"
    ghost           \* history the claims are stated over; never read by the program

vars == <<revision, page, TDState, UpgradeLevels, SkillLevels, MetaUpgrades,
          localStorage, gamePath, timers, skillsModal, animationFrameId, clock, dt,
          canvasHeight, startButton, ghost>>

----------------------------------------------------------------------------
(* Bounds of the model.  The model follows six families of behaviours;      *)
(* ghost.scope says which one a behaviour belongs to:                        *)
(*   "shop"   the player buys, starts, pauses and reloads; nothing spawns;   *)
(*   "field"  the player starts and calls waves; two slots in each pool, the *)
(*            first spawns of a wave, every enemy is killed;                 *)
(*   "siege"  the player starts and calls waves; two enemy slots, one        *)
(*            projectile, the first spawns of a wave, enemies reach the      *)
(*            castle;                                                        *)
(*   "wave"   the player starts, pauses, resumes and calls waves; ten spawns *)
(*            (the whole of wave 1), one enemy and one projectile at a time, *)
(*            every enemy is killed;                                         *)
(*   "ruin"   the player loads a save, starts, pauses, calls waves and buys; *)
(*            two enemy slots, the hero never has a target, the first spawns *)
(*            of a wave, enemies reach the castle;                           *)
(*   "relaunch" the player loads a save of Revision 12, buys skills, starts, *)
(*            pauses and reloads the page again and again; nothing spawns.   *)

\* field: enemy pool slots
MaxEnemies == 2
\* field: projectile pool slots
MaxProjectiles == 2
\* field: enemies spawned (wave spawns and split children)
MaxSpawns == 3
\* siege: enemy pool slots
SiegeEnemies == 2
\* siege: projectile pool slots
SiegeProjectiles == 1
\* siege: enemies spawned
SiegeSpawns == 2
\* siege: enemies that come to the end of the path
MaxLeaks == 2
\* wave: enemy pool slots
WaveEnemies == 1
\* wave: projectile pool slots
WaveProjectiles == 1
\* wave: enemies spawned
WaveSpawns == 10
\* ruin: enemy pool slots
RuinEnemies == 2
\* ruin: enemies spawned
RuinSpawns == 2
\* relaunch: page reloads
LongReloads == 38
\* roster: the wave of the save the page is opened over
MaxWave == 12
\* clock: enemy pool slots
ClockEnemies == 1
\* clock: projectile pool slots
ClockProjectiles == 1
\* clock: enemies spawned
ClockSpawns == 2
\* clock: ms from one frame the model follows to the next
FrameTime == 250
\* clock: the last value of now() the model follows
MaxClock == 3000
\* page reloads
MaxReloads == 1
\* upgrade purchases
CostUpgrades == 5
\* the family of SpecHealers: pool sizes, spawns, the damage upgrades of the
\* saved hero, the shots of the hero, the time between two frames and the end
\* of the clock in ms
HealerEnemies == 1
HealerProjectiles == 1
HealerSpawns == 2
HealerUpgrades == 2
HealerShots == 1
HealerFrameTime == 100
HealerClock == 3100
\* the family of SpecPierce: pool sizes, spawns, and the damage upgrades of
\* the saved hero
PierceEnemies == 2
PierceProjectiles == 1
PierceSpawns == 2
PierceUpgrades == 30
\* the family of SpecStun: pool sizes, spawns, the time between two frames and
\* the end of the clock in ms
StunEnemies == 2
StunProjectiles == 1
StunSpawns == 2
StunFrameTime == 1000
StunClock == 3000
\* the family of SpecFrames: pool sizes, spawns, and the frame times that pass
FrameEnemies == 1
FrameProjectiles == 1
FrameSpawns == 2
MaxFrames == 5
\* the family of SpecFlight: pool sizes, spawns, the time between two frames
\* and the end of the clock in ms
FlightEnemies == 1
FlightProjectiles == 2
FlightSpawns == 1
FlightFrameTime == 1000
FlightClock == 6000
\* the family of SpecCadence: enemy pool slots, spawns, the wave of the save
\* the page can be opened over, the time between two frames and the end of the
\* clock in ms, and the simulated time without a spawn in ms (a resume is a frame of 10 ms at no cost of time)
CadenceEnemies == 3
CadenceSpawns == 3
CadenceWave == 59
CadenceFrameTime == 100
CadenceClock == 1300
CadenceSince == 700
\* the families of SpecCastle.  heal: pool sizes, spawns (the whole of wave 5),
\* arrivals, and the damage upgrades of the saved hero.  repair: enemy pool
\* slots, spawns and arrivals
HealEnemies == 1
HealProjectiles == 1
HealSpawns == 25
HealLeaks == 2
HealUpgrades == 25
RepairEnemies == 2
RepairSpawns == 2
RepairLeaks == 2
\* the height of the canvas in px, where the model takes one
CanvasHeight == 600
\* the family of SpecWalk: enemy pool slots, spawns and arrivals
WalkEnemies == 1
WalkSpawns == 1
WalkLeaks == 1
MaxUpgrades == 1
\* the level of a skill
MaxSkillLevel == 1
\* pending rapid-fire callbacks
MaxTimers == 1

Scopes == {"shop", "field", "siege", "wave", "ruin", "relaunch"}

\* the bounds of a family of behaviours
Scope(scope) ==
    CASE scope = "shop"  -> [enemies |-> 0, projectiles |-> 0, spawns |-> 0, leaks |-> 0,
                             reloads |-> MaxReloads,
                             upgrades |-> MaxUpgrades]
      [] scope = "field" -> [enemies |-> MaxEnemies, projectiles |-> MaxProjectiles,
                             spawns |-> MaxSpawns, leaks |-> 0, reloads |-> 0,
                             upgrades |-> MaxUpgrades]
      [] scope = "siege" -> [enemies |-> SiegeEnemies, projectiles |-> SiegeProjectiles,
                             spawns |-> SiegeSpawns, leaks |-> MaxLeaks, reloads |-> 0,
                             upgrades |-> MaxUpgrades]
      [] scope = "wave"  -> [enemies |-> WaveEnemies, projectiles |-> WaveProjectiles,
                             spawns |-> WaveSpawns, leaks |-> 0, reloads |-> 0,
                             upgrades |-> MaxUpgrades]
      [] scope = "ruin"  -> [enemies |-> RuinEnemies, projectiles |-> 0,
                             spawns |-> RuinSpawns, leaks |-> MaxLeaks, reloads |-> 0,
                             upgrades |-> MaxUpgrades]
      [] scope = "relaunch" -> [enemies |-> 0, projectiles |-> 0, spawns |-> 0, leaks |-> 0,
                                reloads |-> LongReloads,
                             upgrades |-> MaxUpgrades]
      \* the family of SpecShots: one enemy at a time, the clock is followed
      [] scope = "clock" -> [enemies |-> ClockEnemies, projectiles |-> ClockProjectiles,
                             spawns |-> ClockSpawns, leaks |-> 0, reloads |-> 0,
                             upgrades |-> MaxUpgrades]
      \* the family of SpecWaves: waves are started, nothing spawns
      [] scope = "roster" -> [enemies |-> 0, projectiles |-> 0, spawns |-> 0, leaks |-> 0,
                              reloads |-> 0,
                             upgrades |-> MaxUpgrades]
      \* the family of SpecHealers: the healers of wave 8 and one shot of the hero
      [] scope = "healer" -> [enemies |-> HealerEnemies, projectiles |-> HealerProjectiles,
                              spawns |-> HealerSpawns, leaks |-> 0, reloads |-> 0,
                              upgrades |-> HealerUpgrades]
      \* the family of SpecPierce: two enemies of a late wave and one projectile
      [] scope = "pierce" -> [enemies |-> PierceEnemies, projectiles |-> PierceProjectiles,
                              spawns |-> PierceSpawns, leaks |-> 0, reloads |-> 0,
                              upgrades |-> PierceUpgrades]
      \* the family of SpecStun: the first enemies of wave 8 and the EMP blast
      [] scope = "stun" -> [enemies |-> StunEnemies, projectiles |-> StunProjectiles,
                            spawns |-> StunSpawns, leaks |-> 0, reloads |-> 0,
                            upgrades |-> MaxUpgrades]
      \* the family of SpecFrames: frames come after short and long times
      [] scope = "frames" -> [enemies |-> FrameEnemies, projectiles |-> FrameProjectiles,
                              spawns |-> FrameSpawns, leaks |-> 0, reloads |-> 0,
                              upgrades |-> 0]
      \* the family of SpecFlight: projectiles in flight against the clock
      [] scope = "flight" -> [enemies |-> FlightEnemies, projectiles |-> FlightProjectiles,
                              spawns |-> FlightSpawns, leaks |-> 0, reloads |-> 0,
                              upgrades |-> 0]
      \* the family of SpecCadence: the spawn timer is followed, nobody shoots
      [] scope = "cadence" -> [enemies |-> CadenceEnemies, projectiles |-> 0,
                               spawns |-> CadenceSpawns, leaks |-> 0, reloads |-> 0,
                               upgrades |-> MaxUpgrades]
      \* the families of SpecCastle: wave 5 up to its end, with a hero who kills
      \* at one hit; wave 36 with the repair skill, a castle upgrade to buy and
      \* nobody shooting
      [] scope = "heal" -> [enemies |-> HealEnemies, projectiles |-> HealProjectiles,
                            spawns |-> HealSpawns, leaks |-> HealLeaks, reloads |-> 0,
                            upgrades |-> HealUpgrades]
      [] scope = "repair" -> [enemies |-> RepairEnemies, projectiles |-> 0,
                              spawns |-> RepairSpawns, leaks |-> RepairLeaks,
                              reloads |-> 0, upgrades |-> MaxUpgrades]
      \* the family of SpecWalk: one enemy walks the first leg of the path
      [] scope = "walk" -> [enemies |-> WalkEnemies, projectiles |-> 0,
                            spawns |-> WalkSpawns, leaks |-> WalkLeaks, reloads |-> 0,
                            upgrades |-> 0]
      \* the family of SpecCosts: a rich player buys hero upgrades
      [] scope = "costs" -> [enemies |-> 0, projectiles |-> 0, spawns |-> 0, leaks |-> 0,
                             reloads |-> 0,
                             upgrades |-> CostUpgrades]

\* The part of the bounds that no later step of a frame undoes: timers are only
\* added, pool slots and the counts of spawns and arrivals only grow, and a
\* projectile in flight stays in TDState.projectiles to the end of the frame.
Feasible(w) ==
    LET b == Scope(w.g.scope)
    IN  /\ Len(w.timers) <= MaxTimers
        /\ Len(w.td.enemies) <= b.enemies
        /\ Cardinality({i \in 1..Len(w.td.projectiles) : w.td.projectiles[i].active})
             <= b.projectiles
        /\ w.g.spawns <= b.spawns
        /\ w.g.leaks <= b.leaks
        /\ w.g.scope = "healer" => w.g.shots.n <= HealerShots

\* the runs of a frame the model goes on with
Followed(S) == {w \in S : Feasible(w)}

----------------------------------------------------------------------------
(* Program constants. *)

\* TD_CONFIG.spawnInterval, in ms
SPAWN_INTERVAL == 600
\* ABILITY_COOLDOWNS.empBlast, in ms
EMP_COOLDOWN == 45000
HERO_DAMAGE == 10000
HERO_RANGE == 500
\* 20 shots/s, in hundredths
HERO_FIRE_RATE == 2000
\* 90 %, in halves
CRIT_CHANCE == 180
HERO_SPEED == 250
\* MAXS.CASTLE_HP of Revision 12, the cap of upgradeCastleHp
CASTLE_HP_CAP == 10000
\* the castle's starting hp: MAXS.CASTLE_HP in Revision 8, the literal in Revision 12
CASTLE_START_HP == 1000
\* damage one enemy deals to the castle on reaching the end
REACH_END_DAMAGE == 10

Stats == {"damage", "range", "fireRate", "crit"}
AllStats == Stats \cup {"castleHp"}

\* UpgradeManager.costs (Revision 12 adds castleHp: 1000; Revision 8 never asks for it)
UpgradeCosts ==
    [damage |-> 50, range |-> 60, fireRate |-> 80, crit |-> 120, castleHp |-> 1000]

\* UpgradeManager.init: this.levels = { damage: 0, ... } (castleHp: 0 in Revision 12)
ZeroLevels(rev) ==
    IF rev = 8
    THEN [damage |-> 0, range |-> 0, fireRate |-> 0, crit |-> 0]
    ELSE [damage |-> 0, range |-> 0, fireRate |-> 0, crit |-> 0, castleHp |-> 0]

EnemyTypes ==
    [NORMAL   |-> [hp |-> 30,  speed |-> 40, reward |-> 5,  size |-> 20, special |-> "NONE"],
     TANK     |-> [hp |-> 100, speed |-> 25, reward |-> 10, size |-> 30, special |-> "NONE"],
     RUNNER   |-> [hp |-> 15,  speed |-> 80, reward |-> 3,  size |-> 15, special |-> "NONE"],
     HEALER   |-> [hp |-> 40,  speed |-> 30, reward |-> 15, size |-> 22, special |-> "HEAL"],
     SPLITTER |-> [hp |-> 50,  speed |-> 35, reward |-> 8,  size |-> 28, special |-> "SPLIT"],
     \* the child of a splitter: { ...EnemyTypes.NORMAL, size: 15, reward: 1 }
     CHILD    |-> [hp |-> 30,  speed |-> 40, reward |-> 1,  size |-> 15, special |-> "NONE"]]

SkillIds == {"multiShot", "piercingShot", "rapidFire", "legolas",
             "follower", "spreadShot", "godSpeed", "repair"}

SkillTree ==
    [multiShot    |-> [maxLevel |-> 10, unlockWave |-> 10, requires |-> "",             cost |-> 500],
     piercingShot |-> [maxLevel |-> 10, unlockWave |-> 15, requires |-> "multiShot",    cost |-> 800],
     rapidFire    |-> [maxLevel |-> 10, unlockWave |-> 15, requires |-> "multiShot",    cost |-> 1200],
     legolas      |-> [maxLevel |-> 10, unlockWave |-> 20, requires |-> "rapidFire",    cost |-> 1500],
     follower     |-> [maxLevel |-> 1,  unlockWave |-> 25, requires |-> "piercingShot", cost |-> 5000],
     spreadShot   |-> [maxLevel |-> 10, unlockWave |-> 30, requires |-> "follower",     cost |-> 2500],
     godSpeed     |-> [maxLevel |-> 10, unlockWave |-> 30, requires |-> "follower",     cost |-> 2000],
     repair       |-> [maxLevel |-> 10, unlockWave |-> 35, requires |-> "godSpeed",     cost |-> 3000]]

\* SkillManager.init
ZeroSkills ==
    [multiShot |-> 0, piercingShot |-> 0, rapidFire |-> 0, legolas |-> 0,
     follower |-> 0, spreadShot |-> 0, godSpeed |-> 0, repair |-> 0]

----------------------------------------------------------------------------
(* Arithmetic helpers. *)

Min(a, b) == IF a <= b THEN a ELSE b
Max(a, b) == IF a >= b THEN a ELSE b

ClampNone(v, a, b) == v

\* clamp(v, a, b): Math.max(a, Math.min(b, v))
Clamp(v, a, b) == Max(a, Min(b, v))

RECURSIVE Pow(_, _)
Pow(b, n) == IF n = 0 THEN 1 ELSE b * Pow(b, n - 1)

\* the sum of f over keys
RECURSIVE SumOver(_, _)
SumOver(f, keys) ==
    IF keys = {} THEN 0
    ELSE LET k == CHOOSE x \in keys : TRUE IN f[k] + SumOver(f, keys \ {k})

RECURSIVE GCD(_, _)
GCD(a, b) == IF b = 0 THEN a ELSE GCD(b, a % b)

\* ceil(a * m / (b * 100)) for 0 <= m <= 100, without forming a * m * ... beyond
\* 32 bits: a = q*b + r, r*m = q2*b + r2, so a*m/b = (q*m + q2) + r2/b.
CeilScaled(a, b, m) ==
    LET q  == a \div b
        r  == a % b
        q2 == (r * m) \div b
        r2 == (r * m) % b
        n  == q * m + q2
    IN  IF n % 100 = 0 /\ r2 = 0 THEN n \div 100 ELSE (n \div 100) + 1

----------------------------------------------------------------------------
(* The world: every global the handlers read or write, as one record, so    *)
(* that a handler is a function from worlds to worlds and handlers compose  *)
(* the way the code calls them.                                             *)

World ==
    [rev |-> revision, td |-> TDState, ul |-> UpgradeLevels, sl |-> SkillLevels, mu |-> MetaUpgrades,
     ls |-> localStorage, path |-> gamePath, timers |-> timers,
     modal |-> skillsModal, frame |-> animationFrameId, now |-> clock, dt |-> dt,
     height |-> canvasHeight, start |-> startButton, page |-> page, g |-> ghost]

Commit(w) ==
    /\ TDState' = w.td
    /\ UpgradeLevels' = w.ul
    /\ SkillLevels' = w.sl
    /\ MetaUpgrades' = w.mu
    /\ localStorage' = w.ls
    /\ gamePath' = w.path
    /\ timers' = w.timers
    /\ skillsModal' = w.modal
    /\ animationFrameId' = w.frame
    /\ clock' = w.now
    /\ dt' = w.dt
    /\ canvasHeight' = w.height
    /\ startButton' = w.start
    /\ page' = w.page
    /\ ghost' = w.g
    /\ revision' = w.rev

----------------------------------------------------------------------------
(* Meta progression. *)

\* MetaUpgrades.getBonus('startingGold'): level * 10
StartingGoldBonus(mu) == mu.levels.startingGold * 10

\* MetaUpgrades.getBonus('critChance'): level * 0.5, in halves
CritChanceBonus(mu) == mu.levels.critChance

\* MetaUpgrades.upgrades.upgradeDiscount.maxLevel
MaxDiscountLevel == 10

\* MetaUpgrades.getBonus('upgradeDiscount') = 1 - level/100, as a percentage
UpgradeDiscountPct(mu) == 100 - mu.levels.upgradeDiscount

\* MetaUpgrades.save: the document written under 'slimeTDSaveData_meta'
MetaSave(w) ==
    [w EXCEPT !.ls.meta = [kind |-> "json",
                           doc |-> [gems |-> w.mu.gems, levels |-> w.mu.levels]]]

\* MetaUpgrades.load: `data.gems || 0`, `data.levels.x || 0` (0 is its own default)
MetaLoad(w) ==
    IF w.ls.meta.kind = "json"
    THEN [w EXCEPT !.mu.gems = w.ls.meta.doc.gems,
                   !.mu.levels = w.ls.meta.doc.levels]
    ELSE w

----------------------------------------------------------------------------
(* Upgrade economy. *)

\* UpgradeManager.getCost: Math.ceil(base * 1.18^lvl * discount).  1.18 = 59/50 and
\* the discount is a whole percentage, so the real-number value is
\* base * 59^lvl * pct / (50^lvl * 100); base and 50^lvl are reduced by their gcd
\* first.  (The double computation gives the same integer for every stat, every
\* level 0..8 and every discount level 0..10.)
GetCostFalling(w, stat) == UpgradeCosts[stat] \div (w.ul[stat] + 1)

GetCost(w, stat) ==
    LET lvl  == w.ul[stat]
        base == UpgradeCosts[stat]
        den  == Pow(50, lvl)
        g    == GCD(base, den)
    IN  CeilScaled((base \div g) * Pow(59, lvl), den \div g, UpgradeDiscountPct(w.mu))

CanAffordUpgradeAlways(w, stat) == TRUE

CanAffordUpgrade(w, stat) == w.td.gold >= GetCost(w, stat)

PayForUpgradeLevelFirst(w, stat) ==
    LET w1 == [w EXCEPT !.ul[stat] = @ + 1]
    IN  [w1 EXCEPT !.td.gold = @ - GetCost(w1, stat)]

PayForUpgrade(w, stat) ==
    [w EXCEPT !.td.gold = @ - GetCost(w, stat), !.ul[stat] = @ + 1]

\* SkillManager.getSkillCost: Math.floor(cost * 1.5^level)
GetSkillCost(w, id) ==
    (SkillTree[id].cost * Pow(3, w.sl[id])) \div Pow(2, w.sl[id])


----------------------------------------------------------------------------
(* Construction. *)

\* what a missing or unparsable item holds in place of a document
NoDoc == [none |-> TRUE]

\* new Castle()
NewCastle == [hp |-> CASTLE_START_HP, maxHp |-> CASTLE_START_HP]

\* new Hero(): damage 25, range 180, fireRate 1.2, crit 5 + meta bonus, speed 150,
\* lastShot 0
NewHero(mu) ==
    [damage |-> 25, range |-> 180, fireRate |-> 120,
     crit |-> 10 + CritChanceBonus(mu), speed |-> 150, lastShot |-> 0]

\* WaveManager.reset
NewWaveManager ==
    [wave |-> 0, spawning |-> FALSE, spawnFinished |-> FALSE, enemiesToSpawn |-> 0,
     spawned |-> 0, spawnTimer |-> 0,
     waveComposition |-> [wave |-> 0, shuffle |-> "none"]]

\* the TDState literal, with what initGame constructs into it
NewTDState(mu) ==
    [running |-> FALSE, gameOver |-> FALSE, betweenWaves |-> TRUE, gold |-> 100,
     wave |-> 0, enemiesKilled |-> 0, gemsEarned |-> 0,
     enemies |-> <<>>, projectiles |-> <<>>,
     hero |-> NewHero(mu), castle |-> NewCastle, waveManager |-> NewWaveManager,
     follower |-> FALSE, lastTime |-> 0,
     abilities |-> [empBlast |-> [lastUsed |-> -EMP_COOLDOWN]]]

\* the MetaUpgrades literal
NewMetaUpgrades ==
    [gems |-> 0, levels |-> [startingGold |-> 0, critChance |-> 0, upgradeDiscount |-> 0]]

NoOp == [name |-> "load", ok |-> FALSE, short |-> FALSE]

NoSnapshot == [valid |-> FALSE]

NoClear == [wave |-> 0, times |-> 0, later |-> FALSE]

NoOrphan == [hit |-> FALSE, kept |-> FALSE]

NoShots == [n |-> 0, at |-> 0, before |-> 0, rate |-> 0]

NoExits == [dead |-> 0, arrived |-> 0, twice |-> 0, kills |-> 0]

NoHeal == [seen |-> FALSE, own |-> 0, early |-> FALSE, wrong |-> FALSE]

NoPierce ==
    [seen |-> FALSE, hits |-> 0, level |-> 0, over |-> FALSE, kept |-> FALSE,
     again |-> FALSE]

NoStun == [seen |-> FALSE, changed |-> FALSE]

NoCadence ==
    [spawns |-> 0, since |-> 0, last |-> 0, tick |-> 0, early |-> FALSE,
     order |-> FALSE]

NoAcquire == [overwrote |-> FALSE, grew |-> FALSE, reused |-> FALSE, appended |-> FALSE]

NoFrame == [updated |-> FALSE, gap |-> 0, n |-> 0]

NoSplit ==
    [happened |-> FALSE, parent |-> 0, children |-> 0, before |-> 0, after |-> 0,
     at |-> <<>>, first |-> <<>>, second |-> <<>>]

NewGhost(scope) ==
    [scope |-> scope, op |-> NoOp, reloads |-> 0, spawns |-> 0, leaks |-> 0,
     atSave |-> NoSnapshot, afterLoad |-> NoSnapshot,
     \* die() calls beyond one per enemy, and the gold they paid
     excessKills |-> 0, excessGold |-> 0,
     \* the wave endWave last ran for, how often it ran for it, and whether a
     \* frame has begun since
     cleared |-> NoClear,
     \* in the last action: a projectile whose target had left play damaged an
     \* enemy / was still active after its update
     orphan |-> NoOrphan,
     \* where the clock is followed: the number of primary shots of the hero,
     \* lastShot of the last one and of the one before, fireRate at the last one
     shots |-> NoShots,
     \* in the last action, the last death of a splitter: the parent's maxHp, the
     \* sum of the maxHp of the enemies it activated, and the number of active
     \* enemies before and after
     split |-> NoSplit,
     \* since the page was loaded: calls of die() and of reachEnd(), those of
     \* them on an enemy that had left play already, and enemiesKilled at the load
     exits |-> NoExits,
     \* whether update has been called since the page was loaded, the difference
     \* of timestamps the last gameLoop saw, and where frames are counted, the
     \* number of frame times that have passed
     frame |-> NoFrame,
     \* whether update has been called on an enemy with now() < stunnedUntil, and
     \* whether such a call has changed anything in TDState
     stun |-> NoStun,
     \* the hits of the projectiles of Revision 12: whether there was one; of the
     \* last one, the number of hits its projectile has made and the projectile's
     \* piercing level; whether a projectile has ever made more than level + 1
     \* hits, been active after its hit number level + 1, or damaged an object
     \* it had damaged before
     pierce |-> NoPierce,
     \* the pulses of the healers whose timer is followed: whether there was one;
     \* the time the last healer to pulse had accumulated itself; whether a
     \* healer has pulsed with 3000 ms or less of its own; whether a pulse has
     \* changed the hp of an enemy otherwise than by raising an active enemy
     \* within 60 px, not the healer, by a tenth of the healer's maxHp up to the
     \* enemy's maxHp
     heal |-> NoHeal,
     \* the acquisitions of an enemy slot: whether one has taken a slot whose
     \* enemy was active, has appended a slot while a slot was inactive, has
     \* taken an inactive slot of the pool, has appended a slot to a pool
     \* whose enemies were all active
     acquire |-> NoAcquire,
     \* where the spawn timer is followed: the spawns of the wave manager, the
     \* dt, in ms, of the updates since the last of them, the index in the
     \* composition of the last one of the wave, the number of them in the last
     \* update; whether one has come with the dt since the one before at or
     \* below the interval of its wave, whether one has taken an entry other
     \* than the next of the composition
     cadence |-> NoCadence]

----------------------------------------------------------------------------
(* Save system. *)

\* what the claims about the save compare: the live values of the fields a save carries
Snapshot(w) ==
    [valid |-> TRUE, gold |-> w.td.gold, wave |-> w.td.wave, castleHp |-> w.td.castle.hp,
     damage |-> w.td.hero.damage, range |-> w.td.hero.range,
     fireRate |-> w.td.hero.fireRate, crit |-> w.td.hero.crit,
     speed |-> w.td.hero.speed, upgradeLevels |-> w.ul]

\* the gameState object literal of saveGame
GameStateDoc(w) ==
    IF w.rev = 8
    THEN [gold |-> w.td.gold, wave |-> w.td.wave, kills |-> w.td.enemiesKilled,
          gems |-> w.td.gemsEarned, castleHp |-> w.td.castle.hp,
          hero |-> [damage |-> w.td.hero.damage, fireRate |-> w.td.hero.fireRate,
                    range |-> w.td.hero.range, crit |-> w.td.hero.crit],
          upgradeLevels |-> w.ul]
    ELSE [gold |-> w.td.gold, wave |-> w.td.wave, kills |-> w.td.enemiesKilled,
          gems |-> w.td.gemsEarned,
          castle |-> [hp |-> w.td.castle.hp, maxHp |-> w.td.castle.maxHp],
          hero |-> [damage |-> w.td.hero.damage, fireRate |-> w.td.hero.fireRate,
                    range |-> w.td.hero.range, crit |-> w.td.hero.crit,
                    speed |-> w.td.hero.speed],
          upgradeLevels |-> w.ul, skillLevels |-> w.sl]

\* saveGame: localStorage.setItem(saveKey, JSON.stringify(gameState))
SaveGame(w) ==
    [w EXCEPT !.ls.game = [kind |-> "json", doc |-> GameStateDoc(w)],
              !.g.atSave = Snapshot(w)]

\* clearSave: localStorage.removeItem(saveKey)
ClearSave(w) ==
    [w EXCEPT !.ls.game = [kind |-> "absent", doc |-> NoDoc],
              !.g.atSave = NoSnapshot]

\* JSON.parse(savedState) throws a SyntaxError on text that is not JSON
ParseThrows(item) == item.kind = "malformed"

LoadGameSwapped(w) ==
    LET data == w.ls.game.doc
    IN  [w EXCEPT !.td.gold = data.gold, !.td.wave = data.wave,
                  !.td.waveManager.wave = data.wave,
                  !.td.enemiesKilled = data.kills, !.td.gemsEarned = data.gems,
                  !.td.castle = IF w.rev = 8 THEN [@ EXCEPT !.hp = data.castleHp]
                                ELSE [hp |-> data.castle.hp, maxHp |-> data.castle.maxHp],
                  !.td.hero = [damage |-> data.hero.range,
                               fireRate |-> data.hero.fireRate,
                               range |-> data.hero.damage,
                               crit |-> data.hero.crit,
                               speed |-> IF w.rev = 8 THEN @.speed
                                         ELSE IF data.hero.speed = 0 THEN 150
                                         ELSE data.hero.speed,
                               lastShot |-> @.lastShot],
                  !.ul = data.upgradeLevels,
                  !.sl = IF w.rev = 8 THEN @ ELSE data.skillLevels]

\* loadGame, the branch `if (savedState)` after a successful parse: the field
\* assignments.  `data.hero.speed || 150` replaces 0; `data.skillLevels || {}`
\* never replaces, saveGame always writes the object.
LoadGameFields(w) ==
    LET data == w.ls.game.doc
    IN  [w EXCEPT !.td.gold = data.gold, !.td.wave = data.wave,
                  !.td.waveManager.wave = data.wave,
                  !.td.enemiesKilled = data.kills, !.td.gemsEarned = data.gems,
                  !.td.castle = IF w.rev = 8 THEN [@ EXCEPT !.hp = data.castleHp]
                                ELSE [hp |-> data.castle.hp, maxHp |-> data.castle.maxHp],
                  !.td.hero = [damage |-> data.hero.damage,
                               fireRate |-> data.hero.fireRate,
                               range |-> data.hero.range,
                               crit |-> data.hero.crit,
                               speed |-> IF w.rev = 8 THEN @.speed
                                         ELSE IF data.hero.speed = 0 THEN 150
                                         ELSE data.hero.speed,
                               lastShot |-> @.lastShot],
                  !.ul = data.upgradeLevels,
                  !.sl = IF w.rev = 8 THEN @ ELSE data.skillLevels]

\* loadGame.  Three outcomes: "loaded" (returns true), "none" (returns false),
\* "throw" (JSON.parse threw; nothing was assigned).
LoadGameOutcome(w) ==
    IF w.ls.game.kind = "absent" THEN "none"
    ELSE IF ParseThrows(w.ls.game) THEN "throw"
    ELSE "loaded"

LoadGame(w) ==
    IF LoadGameOutcome(w) = "loaded"
    THEN LET w1 == LoadGameFields(w)
         IN  [w1 EXCEPT !.g.afterLoad = Snapshot(w1)]
    ELSE w

----------------------------------------------------------------------------
(* Skills (Revision 12). *)

\* SkillManager.applySkillEffects(id, levels)
ApplySkillEffects(w, id, levels) ==
    IF id = "legolas" THEN [w EXCEPT !.td.hero.fireRate = @ + 50 * levels]
    ELSE IF id = "godSpeed"
    THEN [w EXCEPT !.td.hero.speed = Min(HERO_SPEED, @ + 10 * levels)]
    ELSE IF id = "follower" /\ ~w.td.follower THEN [w EXCEPT !.td.follower = TRUE]
    ELSE w

\* SkillManager.applyAllLoadedEffects: only legolas, godSpeed and follower have an
\* effect, on three different fields, so the order of Object.keys does not matter
ApplyAllLoadedEffects(w) ==
    LET app(v, id) == IF v.sl[id] > 0 THEN ApplySkillEffects(v, id, v.sl[id]) ELSE v
    IN  app(app(app(w, "legolas"), "godSpeed"), "follower")

----------------------------------------------------------------------------
(* Castle and enemies. *)

CastleTakeDamageKeepsSave(w, amount) ==
    LET w1 == [w EXCEPT !.td.castle.hp = Max(0, @ - amount)]
    IN  IF w1.td.castle.hp <= 0
        THEN LET w2 == [w1 EXCEPT !.td.gameOver = TRUE, !.td.running = FALSE,
                                  !.mu.gems = @ + w1.td.gemsEarned]
             IN  [MetaSave(w2) EXCEPT !.g.cleared = NoClear]
        ELSE w1

\* Castle.takeDamage
CastleTakeDamage(w, amount) ==
    LET w1 == [w EXCEPT !.td.castle.hp = Max(0, @ - amount)]
    IN  IF w1.td.castle.hp <= 0
        THEN LET w2 == [w1 EXCEPT !.td.gameOver = TRUE, !.td.running = FALSE,
                                  !.mu.gems = @ + w1.td.gemsEarned]
             IN  [ClearSave(MetaSave(w2)) EXCEPT !.g.cleared = NoClear]
        ELSE w1

RecoverHpUncapped(w, num, den) ==
    [w EXCEPT !.td.castle.hp = @ + (w.td.castle.maxHp * num) \div den]

\* Castle.recoverHp(percentage), percentage = num / den
RecoverHp(w, num, den) ==
    LET recoveryAmount == (w.td.castle.maxHp * num) \div den
    IN  [w EXCEPT !.td.castle.hp = Min(w.td.castle.maxHp, @ + recoveryAmount)]

\* Where an enemy is.  x is a base point and an offset in px, y a base point;
\* the base points are gamePath[0] ("start") and the point further along the
\* path that the enemy's walk has taken it to ("road").
StartX == [base |-> "start", off |-> 0]
StartY == "start"
RoadX == [base |-> "road", off |-> 0]
RoadY == "road"

Shift(x, px) == [x EXCEPT !.off = @ + px]

\* An enemy slot that is not in play.  Nothing reads the other fields of an
\* inactive enemy once the call that took it out of play has returned (every
\* reader tests `active` first; init overwrites them), so the model does not
\* keep their stale values.
FreeSlot ==
    [active |-> FALSE, type |-> "NONE", hp |-> 0, maxHp |-> 0, reward |-> 0,
     special |-> "NONE", atEnd |-> FALSE, died |-> FALSE, x |-> StartX, y |-> StartY,
     specialTimer |-> 0, stunnedUntil |-> 0, own |-> 0, first |-> FALSE, toGo |-> 0]

\* The slot an enemy leaves behind.  init does not assign specialTimer, so
\* the next enemy of the slot starts from the value left in it.
Freed(e) == [FreeSlot EXCEPT !.specialTimer = e.specialTimer]

ActiveEnemies(w) == {k \in 1..Len(w.td.enemies) : w.td.enemies[k].active}

AcquireEnemyFirst(w) == 1

\* TDState.enemies.find(en => !en.active), else push(new Enemy()): the slot index
AcquireEnemy(w) ==
    LET free == {k \in 1..Len(w.td.enemies) : ~w.td.enemies[k].active}
    IN  IF free = {} THEN Len(w.td.enemies) + 1
        ELSE CHOOSE k \in free : \A j \in free : k <= j

\* where the model follows the walk of an enemy to gamePath[1]: there an
\* enemy has first (pathIndex = 1) and toGo, its place on the line from
\* gamePath[0] to gamePath[1] in thousandths of a px, gamePath[1] being 0 and
\* gamePath[0] negative
Walked(w) == w.g.scope = "walk"

\* the distance from gamePath[0] to gamePath[1] in the first preset, two points
\* of one x with y = -50 and y = h * 0.2, in thousandths of a px
FirstLeg(height) == 200 * height + 50000

\* the record of an acquisition that gave slot k of the pool of w
Acquired(w, k) ==
    LET n == Len(w.td.enemies)
        a == w.g.acquire
    IN  [overwrote |-> a.overwrote \/ (k <= n /\ w.td.enemies[k].active),
         grew      |-> a.grew \/ (k > n /\ ActiveEnemies(w) # 1..n),
         reused    |-> a.reused \/ (k <= n /\ ~w.td.enemies[k].active),
         appended  |-> a.appended \/ (k = n + 1 /\ n > 0 /\ ActiveEnemies(w) = 1..n)]

\* Enemy.init(type, waveModifier) on the acquired slot; hp in twentieths:
\* type.hp * (1 + wave * 0.15) * 20 = type.hp * (20 + 3 * wave).
\* atEnd abstracts pathIndex >= gamePath.length; init sets pathIndex = 1 and
\* x, y to gamePath[0].  own is history: the dt, in ms, that this enemy's
\* updates have added to specialTimer since init or since its last pulse.
SpawnEnemy(w, type, hp) ==
    LET k == AcquireEnemy(w)
        e == [active |-> TRUE, type |-> type, hp |-> hp, maxHp |-> hp,
              reward |-> EnemyTypes[type].reward, special |-> EnemyTypes[type].special,
              atEnd |-> FALSE, died |-> FALSE, x |-> StartX, y |-> StartY,
              specialTimer |-> IF k > Len(w.td.enemies) THEN 0
                               ELSE w.td.enemies[k].specialTimer,
              stunnedUntil |-> 0, own |-> 0,
              first |-> Walked(w),
              toGo |-> IF Walked(w) THEN -FirstLeg(w.height) ELSE 0]
    IN  [w EXCEPT !.td.enemies = IF k > Len(@) THEN Append(@, e) ELSE [@ EXCEPT ![k] = e],
                  !.g.spawns = @ + 1,
                  !.g.acquire = Acquired(w, k)]

\* a projectile in flight to the enemy in slot k, which it has not hit yet, has
\* lost its target when that enemy leaves play
RECURSIVE OrphansOf(_, _)
OrphansOf(q, k) ==
    IF q = <<>> THEN <<>>
    ELSE LET p == Head(q)
         IN  <<IF p.active /\ p.target = k /\ k \notin p.hitEnemies
               THEN [p EXCEPT !.orphan = TRUE] ELSE p>> \o OrphansOf(Tail(q), k)

MarkOrphans(w, k) == [w EXCEPT !.td.projectiles = OrphansOf(@, k)]

DieStaysActive(w, k) ==
    LET e  == w.td.enemies[k]
        w1 == [w EXCEPT !.td.enemies[k].died = TRUE,
                        !.td.enemiesKilled = @ + 1,
                        !.td.gold = @ + e.reward,
                        !.g.excessKills = @ + (IF e.died \/ ~e.active THEN 1 ELSE 0),
                        !.g.excessGold = @ + (IF e.died \/ ~e.active THEN e.reward ELSE 0)]
    IN  IF e.special = "SPLIT"
        THEN SpawnEnemy(SpawnEnemy(w1, "CHILD", 600), "CHILD", 600)
        ELSE w1

\* the record of a splitter's death: w before die(), w1 after
Split(w, w1, k, slots) ==
    [w1 EXCEPT !.g.split =
        [NoSplit EXCEPT !.happened = TRUE, !.parent = w.td.enemies[k].maxHp,
             !.children = SumOver([j \in slots |-> w1.td.enemies[j].maxHp], slots),
             !.before = Cardinality(ActiveEnemies(w)),
             !.after = Cardinality(ActiveEnemies(w1))]]

\* where the enemy in slot j is
Place(w, j) == <<w.td.enemies[j].x, w.td.enemies[j].y>>

\* `e.x = this.x + (i * 20 - 10); e.y = this.y;` after e.init: e is slot j, this
\* is slot k, read as init left it
PlaceChild(w, j, k, px) ==
    [w EXCEPT !.td.enemies[j].x = Shift(w.td.enemies[k].x, px),
              !.td.enemies[j].y = w.td.enemies[k].y]

\* the slot of the dead enemy when die() has returned
Vacate(w, k) ==
    IF w.td.enemies[k].active THEN w ELSE [w EXCEPT !.td.enemies[k] = Freed(@)]

DieOneChild(w, k) ==
    LET e  == w.td.enemies[k]
        w1 == [MarkOrphans(w, k) EXCEPT !.td.enemies[k] = Freed(@),
                        !.td.enemiesKilled = @ + 1,
                        !.td.gold = @ + e.reward,
                        !.g.excessKills = @ + (IF e.died \/ ~e.active THEN 1 ELSE 0),
                        !.g.excessGold = @ + (IF e.died \/ ~e.active THEN e.reward ELSE 0),
                        !.g.exits.dead = @ + 1]
    IN  IF e.special = "SPLIT"
        THEN Split(w, SpawnEnemy(w1, "CHILD", 600), k, {AcquireEnemy(w1)})
        ELSE w1

\* Enemy.die
Die(w, k) ==
    LET e  == w.td.enemies[k]
        w1 == [MarkOrphans(w, k) EXCEPT !.td.enemies[k] =
                                            [Freed(@) EXCEPT !.x = e.x, !.y = e.y],
                        !.td.enemiesKilled = @ + 1,
                        !.td.gold = @ + e.reward,
                        !.g.excessKills = @ + (IF e.died \/ ~e.active THEN 1 ELSE 0),
                        !.g.excessGold = @ + (IF e.died \/ ~e.active THEN e.reward ELSE 0),
                        !.g.exits.dead = @ + 1,
                        !.g.exits.twice = @ + (IF e.died \/ ~e.active THEN 1 ELSE 0)]
        j1 == AcquireEnemy(w1)
        w2 == PlaceChild(SpawnEnemy(w1, "CHILD", EnemyTypes["CHILD"].hp * 20),
                         j1, k, -10)
        j2 == AcquireEnemy(w2)
        w3 == PlaceChild(SpawnEnemy(w2, "CHILD", EnemyTypes["CHILD"].hp * 20),
                         j2, k, 10)
    IN  IF e.special = "SPLIT"
        THEN [Split(w, Vacate(w3, k), k, {j1, j2}) EXCEPT
                  !.g.split.at = <<e.x, e.y>>,
                  !.g.split.first = Place(w3, j1),
                  !.g.split.second = Place(w3, j2)]
        ELSE Vacate(w1, k)

\* Enemy.takeDamage
TakeDamage(w, k, dmg) ==
    LET e == w.td.enemies[k]
    IN  IF ~e.active THEN w
        ELSE IF e.hp - dmg <= 0
        THEN Die([w EXCEPT !.td.enemies[k].hp = @ - dmg], k)
        ELSE [w EXCEPT !.td.enemies[k].hp = @ - dmg]

\* the record of a reachEnd() on the enemy in slot k
Arrived(w, k) ==
    [w EXCEPT !.g.exits.arrived = @ + 1,
              !.g.exits.twice = @ + (IF w.td.enemies[k].died \/ ~w.td.enemies[k].active
                                     THEN 1 ELSE 0)]

ReachEndStaysActive(w, k) ==
    CastleTakeDamage([MarkOrphans(Arrived(w, k), k) EXCEPT !.td.enemies[k].died = TRUE],
                     REACH_END_DAMAGE)

\* Enemy.reachEnd
ReachEnd(w, k) ==
    CastleTakeDamage([MarkOrphans(Arrived(w, k), k) EXCEPT !.td.enemies[k] = Freed(@)],
                     REACH_END_DAMAGE)

\* the HEAL special of Enemy.update, for the neighbours within 60 px: each one
\* that is active, is not the healer and is below maxHp gains a tenth of the
\* healer's maxHp
RECURSIVE Healed(_, _, _, _, _)
Healed(q, j, k, near, amount) ==
    IF j > Len(q) THEN q
    ELSE Healed(IF j \in near /\ q[j].active /\ j # k /\ q[j].hp < q[j].maxHp
                THEN [q EXCEPT ![j].hp = Min(q[j].maxHp, q[j].hp + amount)]
                ELSE q,
                j + 1, k, near, amount)

Heal(w, k, near) ==
    [w EXCEPT !.td.enemies = Healed(@, 1, k, near, w.td.enemies[k].maxHp \div 10)]

\* where the model follows the timers of the enemies (see Clocked for now())
Timed(w) == w.g.scope \in {"stun", "healer"}

\* the record of a pulse of the healer in slot k: w before it, v after it
Pulsed(w, v, k, near, own) ==
    LET h == w.td.enemies[k]
        right(j) ==
            LET e == w.td.enemies[j]
                f == v.td.enemies[j]
            IN  f.hp # e.hp =>
                    /\ e.active /\ j # k /\ j \in near
                    /\ f.hp = Min(e.maxHp, e.hp + h.maxHp \div 10)
                    /\ f.hp <= f.maxHp
    IN  [v EXCEPT !.g.heal =
            [seen |-> TRUE, own |-> own,
             early |-> @.early \/ own <= 3000,
             wrong |-> @.wrong \/ ~(\A j \in 1..Len(w.td.enemies) : right(j))]]

\* `this.specialTimer += dt * 1000; if (this.specialTimer > 3000) {
\* this.specialTimer = 0; ... }` for the healer in slot k.  Input: which enemies
\* are within 60 px.  Where the timer is not followed, whether it expires is an
\* input too.
HealerTurn(w, k) ==
    LET t == w.td.enemies[k].specialTimer + w.dt
        others == ActiveEnemies(w) \ {k}
    IN  IF ~Timed(w) THEN {Heal(w, k, near) : near \in SUBSET others}
        ELSE IF t > 3000
        THEN {Pulsed(w, Heal([w EXCEPT !.td.enemies[k].specialTimer = 0,
                                       !.td.enemies[k].own = 0], k, near),
                     k, near, w.td.enemies[k].own + w.dt) :
                  near \in SUBSET others}
        ELSE {[w EXCEPT !.td.enemies[k].specialTimer = t,
                        !.td.enemies[k].own = @ + w.dt]}

\* `if (dist < 1) { this.pathIndex++; } else { this.x += (dx / dist) *
\* this.speed * dt; ... }` on the way to gamePath[1]: speed in px/s times dt in
\* ms is the step in thousandths of a px
WalkStep(w, k) ==
    LET e == w.td.enemies[k]
        dist == IF e.toGo < 0 THEN -e.toGo ELSE e.toGo
        step == EnemyTypes[e.type].speed * w.dt
    IN  IF dist < 1000
        THEN [w EXCEPT !.td.enemies[k].first = FALSE, !.td.enemies[k].toGo = 0,
                       !.td.enemies[k].x = RoadX, !.td.enemies[k].y = RoadY]
        ELSE [w EXCEPT !.td.enemies[k].toGo = IF e.toGo < 0 THEN @ + step ELSE @ - step]

\* Enemy.update from `if (this.pathIndex >= gamePath.length)` on.  Input: whether
\* the enemy comes within 1 px of the last waypoint in this call (pathIndex++
\* making pathIndex = gamePath.length).
EnemyAdvance(w, k) ==
    LET e == w.td.enemies[k]
    IN  IF e.atEnd THEN {ReachEnd(w, k)}
        ELSE IF e.first THEN {WalkStep(w, k)}
        ELSE LET walked == [w EXCEPT !.td.enemies[k].x = RoadX,
                                      !.td.enemies[k].y = RoadY]
                 moved == Followed({walked, [walked EXCEPT !.td.enemies[k].atEnd = TRUE,
                                                           !.g.leaks = @ + 1]})
             IN  IF e.special = "HEAL"
                 THEN UNION {HealerTurn(v, k) : v \in moved}
                 ELSE moved

EnemyUpdateThroughStun(w, k) ==
    IF ~w.td.enemies[k].active THEN {w} ELSE EnemyAdvance(w, k)

\* Enemy.update for slot k: every result the code can produce in one call
EnemyUpdate(w, k) ==
    LET e == w.td.enemies[k]
    IN  IF ~e.active THEN {w}
        ELSE IF w.now < e.stunnedUntil THEN {w}
        ELSE EnemyAdvance(w, k)

\* the record of a call of update on a stunned enemy: w before, outs after
WatchStun(w, k, outs) ==
    IF w.td.enemies[k].active /\ w.now < w.td.enemies[k].stunnedUntil
    THEN {[v EXCEPT !.g.stun = [seen |-> TRUE, changed |-> @.changed \/ v.td # w.td]] :
              v \in outs}
    ELSE outs

\* TDState.enemies.forEach(e => e.update(dt)), slots k..n
RECURSIVE EnemiesUpdate(_, _, _)
EnemiesUpdate(w, k, n) ==
    IF k > n THEN {w}
    ELSE UNION {EnemiesUpdate(v, k + 1, n) :
                    v \in Followed(WatchStun(w, k, EnemyUpdate(w, k)))}

----------------------------------------------------------------------------
(* Projectiles. *)

\* A projectile that is not in flight; as for enemies, nothing reads its fields.
FreeProjectile ==
    [active |-> FALSE, target |-> 0, damage |-> 0, pierceLeft |-> 0,
     hitEnemies |-> {}, orphan |-> FALSE, hits |-> 0, level |-> 0, spawnTime |-> 0]

\* where the model follows spawnTime of the projectiles (see Clocked for now())
Aged(w) == w.g.scope = "flight"

\* TDState.projectiles.find(pr => !pr.active), else push(new Projectile())
AcquireProjectile(w) ==
    LET free == {i \in 1..Len(w.td.projectiles) : ~w.td.projectiles[i].active}
    IN  IF free = {} THEN Len(w.td.projectiles) + 1
        ELSE CHOOSE i \in free : \A j \in free : i <= j

\* Projectile.init on the acquired projectile.  target is the slot of the enemy
\* object, or 0 for the point object { x, y, active: true } of a spread shot.
\* hitEnemies holds enemy objects, that is, slots.  hits and level are history:
\* the calls of takeDamage the projectile has made since init, and the piercing
\* level init read.
FireProjectile(w, target, damage) ==
    LET i == AcquireProjectile(w)
        p == [active |-> TRUE, target |-> target, damage |-> damage,
              pierceLeft |-> IF w.rev = 8 THEN 0 ELSE w.sl["piercingShot"],
              hitEnemies |-> {}, orphan |-> FALSE, hits |-> 0,
              level |-> IF w.rev = 8 THEN 0 ELSE w.sl["piercingShot"],
              spawnTime |-> IF Aged(w) THEN w.now ELSE 0]
    IN  [w EXCEPT !.td.projectiles =
            IF i > Len(@) THEN Append(@, p) ELSE [@ EXCEPT ![i] = p]]

\* damage * (isCrit ? 2.5 : 1.0), damage in twentieths and a multiple of ten
FinalDamage(damage, isCrit) == IF isCrit THEN (damage * 5) \div 2 ELSE damage

\* this.active = false
Deactivate(w, i) == [w EXCEPT !.td.projectiles[i] = FreeProjectile]

\* the record of the last action: did an orphaned projectile damage, or stay
Orphaned(w, hit, kept) ==
    [w EXCEPT !.g.orphan = [hit |-> @.hit \/ hit, kept |-> @.kept \/ kept]]

TimedOutNever(w, p) == FALSE

\* `now() - this.spawnTime > 3000`, where spawnTime is followed
TimedOut(w, p) == w.now - p.spawnTime > 3000

\* the outcomes of the lifetime test of Projectile.update for projectile i: an
\* input where spawnTime is not followed
Expiry(w, i) ==
    IF Aged(w) THEN {TimedOut(w, w.td.projectiles[i])} ELSE BOOLEAN

\* Projectile.update of Revision 8 for projectile i.  Inputs: the 3 s have run
\* out; the projectile is within 10 px of its target.
ProjectileUpdate8(w, i) ==
    LET p == w.td.projectiles[i]
    IN  IF ~p.active THEN {w}
        ELSE IF ~w.td.enemies[p.target].active THEN {Deactivate(w, i)}
        ELSE (IF TRUE \in Expiry(w, i) THEN {Deactivate(w, i)} ELSE {})
             \cup (IF FALSE \in Expiry(w, i)
                   THEN { Orphaned(w, FALSE, p.orphan),
                          Orphaned(Deactivate(TakeDamage(w, p.target, p.damage), i),
                                   p.orphan, FALSE) }
                   ELSE {})

\* the record of a hit: p before it, q after it, k the slot of the enemy
Pierced(w, p, q, k) ==
    [w EXCEPT !.g.pierce =
        [seen |-> TRUE, hits |-> q.hits, level |-> p.level,
         over |-> @.over \/ q.hits > p.level + 1,
         kept |-> @.kept \/ (q.hits >= p.level + 1 /\ q.active),
         again |-> @.again \/ k \in p.hitEnemies]]

StrikeKeepsFlying(w, i, k) ==
    LET p  == w.td.projectiles[i]
        w1 == TakeDamage(w, k, p.damage)
        q  == [p EXCEPT !.pierceLeft = @ - 1, !.hitEnemies = @ \cup {k}, !.hits = @ + 1]
    IN  Orphaned(Pierced([w1 EXCEPT !.td.projectiles[i] = q], p, q, k), p.orphan, FALSE)

\* `e.takeDamage(this.damage); this.pierceLeft--; this.hitEnemies.push(e);
\* if (this.pierceLeft < 0) this.active = false;` for projectile i and slot k
Strike(w, i, k) ==
    LET p  == w.td.projectiles[i]
        w1 == TakeDamage(w, k, p.damage)
        q  == [p EXCEPT !.pierceLeft = @ - 1, !.hitEnemies = @ \cup {k},
                        !.active = (p.pierceLeft - 1 >= 0), !.hits = @ + 1]
    IN  Orphaned(Pierced([w1 EXCEPT !.td.projectiles[i] = q], p, q, k), p.orphan, FALSE)

\* The enemies.forEach of Projectile.update in Revision 12, from slot k to slot n
\* (forEach visits the slots the array had when it was called); near is the set
\* of slots whose enemy is within size/2 of the projectile.
RECURSIVE HitEnemies(_, _, _, _, _)
HitEnemies(w, i, near, k, n) ==
    IF k > n THEN w
    ELSE LET p == w.td.projectiles[i]
             e == w.td.enemies[k]
         IN  IF p.active /\ e.active /\ k \notin p.hitEnemies /\ k \in near
             THEN HitEnemies(Strike(w, i, k), i, near, k + 1, n)
             ELSE HitEnemies(w, i, near, k + 1, n)

\* the slots an enemy can be active in while one projectile updates: the active
\* ones, and every slot if a splitter can die and put its children in free slots
Touchable(w) ==
    IF \E k \in ActiveEnemies(w) : w.td.enemies[k].special = "SPLIT"
    THEN 1..Len(w.td.enemies) ELSE ActiveEnemies(w)

\* Projectile.update of Revision 12 for projectile i.  Inputs: the 3 s have run
\* out; the enemies the projectile touches after its move; for a spread shot,
\* the projectile being more than 2000 px from its aim point.
ProjectileUpdate12(w, i) ==
    LET p == w.td.projectiles[i]
        done(v) == IF v.td.projectiles[i].active
                   THEN Orphaned(v, FALSE, p.orphan)
                   ELSE Deactivate(v, i)
    IN  IF ~p.active THEN {w}
        ELSE (IF TRUE \in Expiry(w, i) THEN {Deactivate(w, i)} ELSE {})
             \cup (IF FALSE \in Expiry(w, i)
                   THEN {done(HitEnemies(w, i, near, 1, Len(w.td.enemies))) :
                             near \in SUBSET Touchable(w)}
                        \cup (IF p.target = 0
                              THEN {Deactivate(HitEnemies(w, i, near, 1,
                                                          Len(w.td.enemies)), i) :
                                        near \in SUBSET Touchable(w)}
                              ELSE {})
                   ELSE {})

ProjectileUpdate(w, i) ==
    IF w.rev = 8 THEN ProjectileUpdate8(w, i) ELSE ProjectileUpdate12(w, i)

\* TDState.projectiles.forEach(p => p.update(dt)), projectiles i..n
RECURSIVE ProjectilesUpdate(_, _, _)
ProjectilesUpdate(w, i, n) ==
    IF i > n THEN {w}
    ELSE UNION {ProjectilesUpdate(v, i + 1, n) : v \in Followed(ProjectileUpdate(w, i))}

\* TDState.projectiles = TDState.projectiles.filter(p => p.active)
FilterProjectiles(w) ==
    [w EXCEPT !.td.projectiles = SelectSeq(@, LAMBDA p : p.active)]

----------------------------------------------------------------------------
(* Hero and follower. *)

\* Hero.shootAt of Revision 8, past the guard: one projectile at the target
ShootAt8(w, target, isCrit) ==
    FireProjectile(w, target, FinalDamage(w.td.hero.damage * 20, isCrit))

\* shootProjectile of Revision 12 (damage in twentieths): 1 + spreadShot
\* projectiles, the first at the target, the others at points 2000 px away
RECURSIVE SpreadFrom(_, _, _, _)
SpreadFrom(w, target, damage, i) ==
    IF i > w.sl["spreadShot"] THEN w
    ELSE SpreadFrom(FireProjectile(w, IF i = 0 THEN target ELSE 0, damage),
                    target, damage, i + 1)

ShootProjectile(w, target, damage, isCrit) ==
    SpreadFrom(w, target, FinalDamage(damage, isCrit), 0)

\* the multiShot loop of Hero.shootAt: findTarget(target) gives the same second
\* target in every round, each round rolls its own crit
RECURSIVE MultiShot(_, _, _, _)
MultiShot(w, second, crits, i) ==
    IF i > w.sl["multiShot"] THEN w
    ELSE MultiShot(IF second # 0
                   THEN ShootProjectile(w, second, w.td.hero.damage * 20, crits[i])
                   ELSE w,
                   second, crits, i + 1)

\* the rapidFire loop of Hero.shootAt: setTimeout(..., 100 * i), i = 1..level
RECURSIVE RapidFire(_, _, _)
RapidFire(w, target, i) ==
    IF i > w.sl["rapidFire"] THEN w
    ELSE RapidFire([w EXCEPT !.timers = Append(@, [target |-> target])], target, i + 1)

\* Hero.shootAt of Revision 12, past the guard
ShootAt12(w, target, isCrit, second, crits) ==
    RapidFire(MultiShot(ShootProjectile(w, target, w.td.hero.damage * 20, isCrit),
                        second, crits, 1),
              target, 1)

\* is now() followed in this family of behaviours?
Clocked(w) == w.g.scope \in {"clock", "frames", "stun", "healer", "flight", "cadence"}

ShotAllowedAlways(w) == TRUE

\* the guard of Hero.shootAt, `now() - this.lastShot < 1000 / this.fireRate`
\* negated (fireRate in hundredths); an input where now() is not followed
ShotAllowed(w) ==
    ~Clocked(w) \/ (w.now - w.td.hero.lastShot) * w.td.hero.fireRate >= 100000

\* `this.lastShot = now()`
MarkShot(w) ==
    [w EXCEPT !.td.hero.lastShot = w.now,
              !.g.shots = IF Clocked(w)
                          THEN [n |-> @.n + 1, at |-> w.now, before |-> @.at,
                                rate |-> w.td.hero.fireRate]
                          ELSE @]

\* Hero.update: findTarget and shootAt, then (Revision 12) the repair skill.
\* Inputs: the nearest active enemy in range, if there is one; the crit rolls;
\* the nearest other enemy in range; the repair timer running out with the
\* hero next to the castle.
HeroUpdate(w) ==
    LET act == IF ShotAllowed(w) THEN ActiveEnemies(w) ELSE {}
        shots ==
            IF w.rev = 8
            THEN {ShootAt8(MarkShot(w), t, c) : t \in act, c \in BOOLEAN}
            ELSE UNION {{ShootAt12(MarkShot(w), t, c, t2, cs) :
                            c \in BOOLEAN,
                            t2 \in IF w.sl["multiShot"] > 0 THEN {0} \cup (act \ {t}) ELSE {0},
                            cs \in [1..w.sl["multiShot"] -> BOOLEAN]} : t \in act}
        fired == {w} \cup shots
    IN  IF w.rev = 12 /\ w.sl["repair"] > 0
        THEN fired \cup {RecoverHp(v, w.sl["repair"], 1000) : v \in fired}
        ELSE fired

\* Follower.update: one projectile of half the leader's damage
FollowerUpdate(w) ==
    IF ~w.td.follower THEN {w}
    ELSE {w} \cup {ShootProjectile(w, t, w.td.hero.damage * 10, c) :
                       t \in ActiveEnemies(w), c \in BOOLEAN}

\* the callback of a rapid-fire timer: `if (target.active) shootProjectile(...)`
RapidFireCallback(w, target, isCrit) ==
    IF w.td.enemies[target].active
    THEN ShootProjectile(w, target, w.td.hero.damage * 10, isCrit)
    ELSE w

----------------------------------------------------------------------------
(* Wave manager. *)

\* WaveManager.generateWaveComposition before the shuffle: the type at index i
\* (from 1) of the array the five loops push, and its length
CompositionLength(wave) ==
    (8 + wave * 2)
    + (IF wave > 1 THEN wave ELSE 0)
    + (IF wave > 3 THEN wave \div 2 ELSE 0)
    + (IF wave > 5 THEN wave \div 3 ELSE 0)
    + (IF wave > 7 THEN wave \div 4 ELSE 0)

CompositionAtTanksFromSix(wave, i) ==
    LET n1 == 8 + wave * 2
        n2 == n1 + (IF wave > 1 THEN wave ELSE 0)
        n3 == n2 + (IF wave > 5 THEN wave \div 2 ELSE 0)
        n4 == n3 + (IF wave > 5 THEN wave \div 3 ELSE 0)
    IN  IF i <= n1 THEN "NORMAL"
        ELSE IF i <= n2 THEN "RUNNER"
        ELSE IF i <= n3 THEN "TANK"
        ELSE IF i <= n4 THEN "SPLITTER"
        ELSE "HEALER"

CompositionAt(wave, i) ==
    LET n1 == 8 + wave * 2
        n2 == n1 + (IF wave > 1 THEN wave ELSE 0)
        n3 == n2 + (IF wave > 3 THEN wave \div 2 ELSE 0)
        n4 == n3 + (IF wave > 5 THEN wave \div 3 ELSE 0)
    IN  IF i <= n1 THEN "NORMAL"
        ELSE IF i <= n2 THEN "RUNNER"
        ELSE IF i <= n3 THEN "TANK"
        ELSE IF i <= n4 THEN "SPLITTER"
        ELSE "HEALER"

\* sort(() => Math.random() - 0.5) leaves some permutation of the array; the model
\* follows two, the array as pushed and the array reversed, and keeps the array
\* as the wave it was built for and the permutation
Shuffles == {"none", "reversed"}

\* this.waveComposition[i - 1]
WaveCompositionAt(wc, i) ==
    IF wc.shuffle = "none" THEN CompositionAt(wc.wave, i)
    ELSE CompositionAt(wc.wave, CompositionLength(wc.wave) + 1 - i)

\* WaveManager.startNextWave.  generateNewPath replaces the waypoints; which of
\* the four presets it takes is geometry, the model keeps for which wave it ran.
StartNextWave(w, shuffle) ==
    IF w.td.waveManager.spawning THEN w
    ELSE [w EXCEPT !.td.betweenWaves = FALSE,
                   !.path = w.td.waveManager.wave + 1,
                   !.td.waveManager.wave = @ + 1,
                   !.td.wave = w.td.waveManager.wave + 1,
                   !.td.waveManager.waveComposition =
                        [wave |-> w.td.waveManager.wave + 1, shuffle |-> shuffle],
                   !.td.waveManager.enemiesToSpawn =
                        CompositionLength(w.td.waveManager.wave + 1),
                   !.td.waveManager.spawned = 0,
                   !.td.waveManager.spawnTimer = 0,
                   !.g.cadence.last = 0,
                   !.td.waveManager.spawning = TRUE,
                   !.td.waveManager.spawnFinished = FALSE]

\* every way startNextWave can come out
StartNextWaveAny(w) ==
    {StartNextWave(w, shuffle) :
        shuffle \in IF w.td.waveManager.wave + 1 > 1 THEN Shuffles ELSE {"none"}}

\* WaveManager.endWave
EndWave(w) ==
    LET wm == w.td.waveManager
        w1 == [w EXCEPT !.td.waveManager.spawning = FALSE,
                        !.td.betweenWaves = TRUE,
                        !.td.gold = @ + 15 * wm.wave,
                        !.td.gemsEarned = @ + 1 + (wm.wave \div 5),
                        !.g.cleared = IF @.wave = wm.wave
                                      THEN [@ EXCEPT !.times = @ + 1]
                                      ELSE [wave |-> wm.wave, times |-> 1,
                                            later |-> FALSE]]
        w2 == IF w.rev = 12 /\ wm.wave > 0 /\ wm.wave % 5 = 0
              THEN RecoverHp(w1, 15, 100) ELSE w1
    IN  SaveGame(w2)

ShouldEndWaveWhileIdle(w) ==
    /\ w.td.waveManager.spawnFinished
    /\ ActiveEnemies(w) = {}

\* the condition of WaveManager.update under which endWave is called
ShouldEndWave(w) ==
    /\ w.td.waveManager.spawnFinished /\ ~w.td.betweenWaves
    /\ ActiveEnemies(w) = {}

\* where the model follows the spawn timer of the wave manager
Paced(w) == w.g.scope = "cadence"

\* Math.max(100, TD_CONFIG.spawnInterval - this.wave * 10)
SpawnInterval(wave) == Max(100, SPAWN_INTERVAL - wave * 10)

SpawnDueAtOnce(w) == TRUE

\* `this.spawnTimer > interval`, after `this.spawnTimer += dt * 1000`
SpawnDue(w) ==
    w.td.waveManager.spawnTimer > SpawnInterval(w.td.waveManager.wave)

\* the record of a spawn of the wave manager that takes entry i of the
\* composition
Cadence(w, i) ==
    [w EXCEPT !.g.cadence =
        IF ~Paced(w) THEN @
        ELSE [spawns |-> @.spawns + 1, since |-> 0, last |-> i, tick |-> @.tick + 1,
              early |-> @.early \/ (@.spawns > 0
                                      /\ @.since <= SpawnInterval(w.td.waveManager.wave)),
              order |-> @.order \/ i # @.last + 1]]

\* WaveManager.update.  Input, where the spawn timer is not followed: the timer
\* has passed the interval.
WaveManagerUpdate(w, spawnDue) ==
    LET w0 == IF Paced(w) /\ w.td.waveManager.spawning
              THEN [w EXCEPT !.td.waveManager.spawnTimer = @ + w.dt] ELSE w
        wm == w0.td.waveManager
        due == IF Paced(w) THEN SpawnDue(w0) ELSE spawnDue
        w1 == IF wm.spawning /\ due /\ wm.spawned < wm.enemiesToSpawn
              THEN LET type == WaveCompositionAt(wm.waveComposition, wm.spawned + 1)
                       counted == {Cadence([w0 EXCEPT !.td.waveManager.spawned = @ + 1,
                                                      !.td.waveManager.spawnTimer = 0],
                                           wm.spawned + 1)}
                   IN  CHOOSE spawned \in
                           {SpawnEnemy(c, type, EnemyTypes[type].hp * (20 + 3 * wm.wave)) :
                               c \in counted} : TRUE
              ELSE w0
        w2 == IF wm.spawning /\ w1.td.waveManager.spawned >= wm.enemiesToSpawn
              THEN [w1 EXCEPT !.td.waveManager.spawning = FALSE,
                              !.td.waveManager.spawnFinished = TRUE]
              ELSE w1
    IN  IF ShouldEndWave(w2) THEN EndWave(w2) ELSE w2

----------------------------------------------------------------------------
(* The game loop. *)

\* update(dt): every state one call can end in
Update(w) ==
    IF w.td.gameOver THEN {w}
    ELSE LET began == {[w EXCEPT !.g.cleared.later = (w.g.cleared.times > 0),
                                !.g.cadence = IF Paced(w)
                                              THEN [@ EXCEPT !.since = @ + w.dt, !.tick = 0]
                                              ELSE @]}
             afterWave == Followed({WaveManagerUpdate(w0, d) : w0 \in began, d \in BOOLEAN})
             afterHero == Followed(UNION {HeroUpdate(v) : v \in afterWave})
             afterFollower == Followed(UNION {FollowerUpdate(v) : v \in afterHero})
             afterEnemies == UNION {EnemiesUpdate(v, 1, Len(v.td.enemies)) :
                                        v \in afterFollower}
         IN  UNION {LET f == FilterProjectiles(v)
                    IN  ProjectilesUpdate(f, 1, Len(f.td.projectiles)) :
                        v \in afterEnemies}

\* `const dt = clamp((timestamp - TDState.lastTime) / 1000, 0.01, 0.1);
\* TDState.lastTime = timestamp;`, in ms; the timestamp is w.now
FrameDelta(w) ==
    [w EXCEPT !.dt = Clamp(w.now - w.td.lastTime, 10, 100),
              !.td.lastTime = w.now,
              !.g.frame.updated = TRUE,
              !.g.frame.gap = w.now - w.td.lastTime]

GameLoopAlways(w) == {[v EXCEPT !.frame = @ + 1] : v \in Update(FrameDelta(w))}

\* gameLoop(timestamp): `if (!TDState.running) return;`, the clamped dt, update,
\* and `animationFrameId = requestAnimationFrame(gameLoop)`
GameLoop(w) ==
    IF ~w.td.running THEN {w}
    ELSE {[v EXCEPT !.frame = @ + 1] : v \in UNION {Update(u) : u \in {FrameDelta(w)}}}

----------------------------------------------------------------------------
(* Page load. *)

\* the globals as the script's top level leaves them, over the given storage
PageLoad(rev, ls, g) ==
    [rev |-> rev, td |-> NewTDState(NewMetaUpgrades), ul |-> ZeroLevels(rev),
     sl |-> ZeroSkills, mu |-> NewMetaUpgrades, ls |-> ls, path |-> 0,
     timers |-> <<>>, modal |-> [open |-> FALSE, clickable |-> {}],
     frame |-> 0, now |-> 0, dt |-> 0, height |-> CanvasHeight, start |-> "block",
     page |-> "ready",
     g |-> g]

\* initGame, called from the DOMContentLoaded listener before any other listener
\* is attached: an exception leaving loadGame leaves the page without handlers.
InitGame(w0) ==
    LET w1 == MetaLoad(w0)
        w2 == [w1 EXCEPT !.td.castle = NewCastle, !.td.hero = NewHero(w1.mu),
                         !.td.waveManager = NewWaveManager,
                         !.ul = ZeroLevels(w1.rev), !.sl = ZeroSkills]
        out == LoadGameOutcome(w2)
        w3 == IF out = "loaded"
              THEN (IF w2.rev = 8 THEN LoadGame(w2) ELSE ApplyAllLoadedEffects(LoadGame(w2)))
              ELSE IF out = "none"
              THEN [w2 EXCEPT !.td.gold = 100 + StartingGoldBonus(w2.mu)]
              ELSE [w2 EXCEPT !.page = "crashed"]
    IN  [w3 EXCEPT !.g.op = [name |-> "initGame", ok |-> (out = "loaded"), short |-> FALSE],
                   !.g.orphan = [hit |-> FALSE, kept |-> FALSE],
                   !.g.split = NoSplit,
                   !.g.exits = [NoExits EXCEPT !.kills = w3.td.enemiesKilled],
                   !.g.frame = NoFrame]

(* What storage holds when the page is opened.  Everything but the malformed    *)
(* item is a document an earlier session of the same revision writes: the meta  *)
(* document by MetaUpgrades.save after purchases, the game document by saveGame *)
(* on a pause in the middle of a wave.                                          *)

AbsentItem == [kind |-> "absent", doc |-> NoDoc]

MalformedItem == [kind |-> "malformed", doc |-> NoDoc]

MetaItem ==
    [kind |-> "json",
     doc |-> [gems |-> 0,
              levels |-> [startingGold |-> 1, critChance |-> 1, upgradeDiscount |-> 1]]]

\* Revision 8, paused in wave 5 with the castle almost gone
MidGameItem ==
    [kind |-> "json",
     doc |-> [gold |-> 40, wave |-> 5, kills |-> 60, gems |-> 4, castleHp |-> 10,
              hero |-> [damage |-> 31, fireRate |-> 120, range |-> 180, crit |-> 10],
              upgradeLevels |-> [damage |-> 1, range |-> 0, fireRate |-> 0, crit |-> 0]]]

\* Revision 12, paused in wave 25 with multiShot and rapidFire bought
LateGameItem ==
    [kind |-> "json",
     doc |-> [gold |-> 1600, wave |-> 25, kills |-> 600, gems |-> 74,
              castle |-> [hp |-> 20, maxHp |-> 1000],
              hero |-> [damage |-> 25, fireRate |-> 120, range |-> 180, crit |-> 10,
                        speed |-> 150],
              upgradeLevels |-> ZeroLevels(12),
              skillLevels |-> [ZeroSkills EXCEPT !.multiShot = 1, !.rapidFire = 1]]]

\* Revision 12, paused in wave 9 with gold saved up and no skill bought
EarlyGameItem ==
    [kind |-> "json",
     doc |-> [gold |-> 900, wave |-> 9, kills |-> 150, gems |-> 12,
              castle |-> [hp |-> 1000, maxHp |-> 1000],
              hero |-> [damage |-> 25, fireRate |-> 120, range |-> 180, crit |-> 10,
                        speed |-> 150],
              upgradeLevels |-> ZeroLevels(12),
              skillLevels |-> ZeroSkills]]

FreshStorage(rev) ==
    [game |-> AbsentItem, meta |-> IF rev = 8 THEN AbsentItem ELSE MetaItem]

MalformedStorage == [game |-> MalformedItem, meta |-> MetaItem]

SavedStorage(rev) ==
    [game |-> IF rev = 8 THEN MidGameItem ELSE LateGameItem, meta |-> AbsentItem]

\* the storages a family of behaviours starts from
Storages(rev, scope) ==
    CASE scope = "shop"  -> {FreshStorage(rev), MalformedStorage, SavedStorage(rev)}
                            \cup (IF rev = 12
                                  THEN {[game |-> EarlyGameItem, meta |-> AbsentItem]}
                                  ELSE {})
      [] scope = "field" -> {FreshStorage(rev)}
                            \cup (IF rev = 8 THEN {SavedStorage(rev)} ELSE {})
      [] scope = "siege" -> {FreshStorage(rev)}
                            \cup (IF rev = 8 THEN {SavedStorage(rev)} ELSE {})
      [] scope = "wave"  -> {FreshStorage(rev)}
                            \cup (IF rev = 12 THEN {SavedStorage(rev)} ELSE {})
      [] scope = "ruin"  -> {SavedStorage(rev)}
      [] scope = "relaunch" -> IF rev = 12 THEN {SavedStorage(rev)} ELSE {}

Init ==
    \E rev \in {8, 12} : \E scope \in Scopes : \E ls \in Storages(rev, scope) :
        LET w == InitGame(PageLoad(rev, ls, NewGhost(scope)))
        IN  /\ revision = rev
            /\ TDState = w.td
            /\ UpgradeLevels = w.ul
            /\ SkillLevels = w.sl
            /\ MetaUpgrades = w.mu
            /\ localStorage = w.ls
            /\ gamePath = w.path
            /\ timers = w.timers
            /\ skillsModal = w.modal
            /\ animationFrameId = w.frame
            /\ clock = w.now
            /\ dt = w.dt
            /\ canvasHeight = w.height
            /\ startButton = w.start
            /\ page = w.page
            /\ ghost = w.g

----------------------------------------------------------------------------
(* The upgrade buttons. *)

\* Hero.upgrade(stat)
HeroUpgrade(w, stat) ==
    IF ~CanAffordUpgrade(w, stat) THEN w
    ELSE LET w1 == PayForUpgrade(w, stat)
         IN  CASE stat = "damage" ->
                    [w1 EXCEPT !.td.hero.damage = Min(HERO_DAMAGE, @ + 6)]
               [] stat = "range" ->
                    [w1 EXCEPT !.td.hero.range = Min(HERO_RANGE, @ + 10)]
               [] stat = "fireRate" ->
                    [w1 EXCEPT !.td.hero.fireRate = Min(HERO_FIRE_RATE, @ + 15)]
               [] stat = "crit" ->
                    [w1 EXCEPT !.td.hero.crit = Min(CRIT_CHANCE, @ + 2)]

\* upgradeCastleHp (Revision 12)
UpgradeCastleHp(w) ==
    IF ~CanAffordUpgrade(w, "castleHp") THEN w
    ELSE LET w1 == PayForUpgrade(w, "castleHp")
             oldMaxHp == w1.td.castle.maxHp
             newMaxHp == Min(CASTLE_HP_CAP, oldMaxHp + 50)
         IN  [w1 EXCEPT !.td.castle.maxHp = newMaxHp,
                        !.td.castle.hp = @ + (newMaxHp - oldMaxHp)]

\* what a purchase handler leaves for the claims: whether gold was short of the
\* price when it was called, and whether it bought
Bought(w, w1, name, price) ==
    [w1 EXCEPT !.g.op = [name |-> name,
                         ok |-> (w1.td.gold # w.td.gold \/ w1.ul # w.ul \/ w1.sl # w.sl),
                         short |-> (w.td.gold < price)],
               !.g.orphan = [hit |-> FALSE, kept |-> FALSE],
               !.g.split = NoSplit]

----------------------------------------------------------------------------
(* Skill tree (Revision 12). *)

PurchaseSkillNoGoldCheck(w, id) ==
    IF w.sl[id] < SkillTree[id].maxLevel
    THEN ApplySkillEffects([w EXCEPT !.td.gold = @ - GetSkillCost(w, id),
                                     !.sl[id] = @ + 1], id, 1)
    ELSE w

\* SkillManager.purchaseSkill; renderSkillTree is below
PurchaseSkillOnly(w, id) ==
    IF w.td.gold >= GetSkillCost(w, id) /\ w.sl[id] < SkillTree[id].maxLevel
    THEN ApplySkillEffects([w EXCEPT !.td.gold = @ - GetSkillCost(w, id),
                                     !.sl[id] = @ + 1], id, 1)
    ELSE w

RenderSkillTreeAll(w) == [w EXCEPT !.modal.clickable = SkillIds]

\* renderSkillTree: the nodes that get an onclick
RenderSkillTree(w) ==
    [w EXCEPT !.modal.clickable =
        {id \in SkillIds :
            /\ w.td.wave >= SkillTree[id].unlockWave
            /\ (SkillTree[id].requires = "" \/ w.sl[SkillTree[id].requires] > 0)
            /\ w.sl[id] < SkillTree[id].maxLevel}]

PurchaseSkill(w, id) ==
    LET w1 == PurchaseSkillOnly(w, id)
    IN  IF w1 = w THEN w ELSE RenderSkillTree(w1)

----------------------------------------------------------------------------
(* Game control. *)

\* startGame, which ends by calling gameLoop itself
StartGame(w) ==
    IF w.td.running \/ w.td.gameOver THEN {w}
    ELSE LET w1 == [w EXCEPT !.td.running = TRUE, !.start = "none", !.td.lastTime = w.now]
             started == IF w1.td.wave = 0 THEN StartNextWaveAny(w1)
                        ELSE {[w1 EXCEPT !.td.betweenWaves = TRUE]}
         IN  UNION {GameLoop(v) : v \in started}

\* pauseGame, which ends with cancelAnimationFrame(animationFrameId)
PauseGameFor(w, isModalOpen) ==
    IF ~w.td.running THEN w
    ELSE LET w1 == [w EXCEPT !.td.running = FALSE]
             w2 == IF isModalOpen THEN w1 ELSE [w1 EXCEPT !.start = "block"]
         IN  [SaveGame(w2) EXCEPT !.frame = Max(0, @ - 1)]

\* the pause button: pauseGame() in Revision 8, pauseGame(false) in Revision 12
PauseGame(w) == PauseGameFor(w, FALSE)

\* callWaveEarly
CallWaveEarly(w) ==
    IF w.td.betweenWaves /\ ~w.td.waveManager.spawning
    THEN StartNextWaveAny([w EXCEPT !.td.gold = @ + 5 * (w.td.wave + 1)])
    ELSE {w}

RECURSIVE StunFrom(_, _, _)
StunFrom(q, j, until) ==
    IF j > Len(q) THEN q
    ELSE StunFrom(IF q[j].active THEN [q EXCEPT ![j].stunnedUntil = until] ELSE q,
                  j + 1, until)

\* useEmpBlast
UseEmpBlast(w) ==
    IF (w.td.abilities.empBlast.lastUsed + EMP_COOLDOWN) - w.now <= 0
    THEN [w EXCEPT !.td.abilities.empBlast.lastUsed = w.now,
                   !.td.enemies = StunFrom(@, 1, w.now + 3000)]
    ELSE w

\* openSkillsModal
OpenSkillsModal(w) ==
    [RenderSkillTree(IF w.td.running THEN PauseGameFor(w, TRUE) ELSE w)
        EXCEPT !.modal.open = TRUE]

\* closeSkillsModal
CloseSkillsModal(w) == [w EXCEPT !.modal.open = FALSE]

----------------------------------------------------------------------------
(* Actions: what the browser calls. *)

\* the states the model follows
Within(w) ==
    /\ Len(w.timers) <= MaxTimers
    /\ w.g.scope # "costs" => \A id \in SkillIds : w.sl[id] <= MaxSkillLevel
    /\ SumOver(w.ul, DOMAIN w.ul) <= Scope(w.g.scope).upgrades
    /\ LET b == Scope(w.g.scope)
       IN  /\ Len(w.td.enemies) <= b.enemies
           /\ Len(w.td.projectiles) <= b.projectiles
           /\ w.g.spawns <= b.spawns
           /\ w.g.leaks <= b.leaks
    /\ w.g.cadence.since <= CadenceSince

\* the buttons the player uses
Buttons(scope) ==
    CASE scope = "shop"  -> {"upgrade", "skills", "start", "pause", "reload"}
      [] scope = "field" -> {"start", "callWave"}
      [] scope = "siege" -> {"start", "callWave"}
      [] scope = "wave"  -> {"start", "pause", "callWave"}
      [] scope = "ruin"  -> {"upgrade", "start", "pause", "callWave"}
      [] scope = "relaunch" -> {"skills", "start", "pause", "reload"}
      [] scope = "roster" -> {"start", "callWave"}
      [] scope = "clock" -> {"upgrade", "start"}
      [] scope = "costs" -> {"upgrade", "start", "pause"}
      [] scope = "frames" -> {"start", "pause"}
      [] scope = "stun" -> {"start", "callWave", "emp"}
      [] scope = "pierce" -> {"start", "callWave"}
      [] scope = "healer" -> {"start", "callWave"}
      [] scope = "flight" -> {"start", "pause"}
      [] scope = "cadence" -> {"start", "pause", "callWave"}
      [] scope = "heal" -> {"start", "callWave"}
      [] scope = "walk" -> {"start"}
      [] scope = "repair" -> {"upgrade", "start", "callWave"}

Uses(button) == page = "ready" /\ button \in Buttons(ghost.scope)

\* the record of a handler that is not a purchase
Did(w, name, ok) ==
    [w EXCEPT !.g.op = [name |-> name, ok |-> ok, short |-> FALSE],
              !.g.orphan = NoOrphan,
              !.g.split = NoSplit]

Step(w) == Within(w) /\ Commit(w)

ClickUpgrade(stat) ==
    /\ Uses("upgrade")
    /\ Step(Bought(World, HeroUpgrade(World, stat), "upgrade", GetCost(World, stat)))

\* the castle button is shown from wave 25 on
ClickUpgradeCastleHp ==
    /\ Uses("upgrade")
    /\ revision = 12
    /\ TDState.wave >= 25
    /\ Step(Bought(World, UpgradeCastleHp(World), "upgradeCastleHp",
                   GetCost(World, "castleHp")))

ClickSkillNode(id) ==
    /\ Uses("skills")
    /\ skillsModal.open
    /\ id \in skillsModal.clickable
    /\ Step(Bought(World, PurchaseSkill(World, id), "purchaseSkill",
                   GetSkillCost(World, id)))

ClickSkills ==
    /\ Uses("skills")
    /\ revision = 12
    /\ ~skillsModal.open
    /\ Step(Did(OpenSkillsModal(World), "openSkillsModal", TRUE))

ClickCloseSkills ==
    /\ Uses("skills")
    /\ skillsModal.open
    /\ Step(Did(CloseSkillsModal(World), "closeSkillsModal", TRUE))

ClickStart ==
    /\ Uses("start")
    /\ startButton = "block"
    /\ ~TDState.running /\ ~TDState.gameOver
    /\ \E w \in StartGame(Did(World, "startGame", TRUE)) : Step(w)

ClickPause ==
    /\ Uses("pause")
    /\ TDState.running
    /\ Step(PauseGame(Did(World, "pauseGame", TRUE)))

ClickCallWave ==
    /\ Uses("callWave")
    /\ LET took == TDState.betweenWaves /\ ~TDState.waveManager.spawning
       IN  \E w \in CallWaveEarly(Did(World, "callWaveEarly", took)) : Step(w)

\* the times between two frames, in ms: a frame in time, and one after the tab
\* was in the background
FrameGaps == {16, 2000}

\* the times between two frames where the walk of an enemy is followed, in ms
WalkGaps == {50, 100}

\* the time that can pass before the next frame
Gaps(scope) ==
    CASE scope = "clock" -> {FrameTime}
      [] scope = "stun" -> {StunFrameTime}
      [] scope = "healer" -> {HealerFrameTime}
      [] scope = "frames" -> FrameGaps
      [] scope = "flight" -> {FlightFrameTime}
      [] scope = "cadence" -> {CadenceFrameTime}
      [] scope = "walk" -> WalkGaps
      [] OTHER -> {0}

\* time passes: now() and the count of frame times.  Where the walk of an
\* enemy is followed, time is counted from the frame that comes: no time read
\* before a frame is compared with one read after it, except lastTime.
Elapse(w, gap) ==
    IF Walked(w) THEN [w EXCEPT !.td.lastTime = w.now - gap]
    ELSE [w EXCEPT !.now = @ + gap,
                   !.g.frame.n = IF w.g.scope = "frames" THEN @ + 1 ELSE @]

ClickEmpBlast ==
    /\ Uses("emp")
    /\ LET took == (TDState.abilities.empBlast.lastUsed + EMP_COOLDOWN) - clock <= 0
       IN  Step(Did(UseEmpBlast(World), "useEmpBlast", took))

\* a frame: the browser calls the gameLoop it holds, some time later where
\* now() is followed
Tick ==
    /\ page = "ready"
    /\ animationFrameId > 0
    /\ \E gap \in Gaps(ghost.scope) :
          /\ ghost.scope = "clock" => clock + gap <= MaxClock
          /\ ghost.scope = "stun" => clock + gap <= StunClock
          /\ ghost.scope = "healer" => clock + gap <= HealerClock
          /\ ghost.scope = "frames" => ghost.frame.n < MaxFrames
          /\ ghost.scope = "flight" => clock + gap <= FlightClock
          /\ ghost.scope = "cadence" => clock + gap <= CadenceClock
          /\ \E called \in {Did([Elapse(World, gap) EXCEPT !.frame = @ - 1],
                                 "gameLoop", TRUE)} :
                \E w \in GameLoop(called) : Step(w)

\* no frame is requested and time passes
Idle ==
    /\ page = "ready"
    /\ animationFrameId = 0
    /\ ghost.scope \in {"frames", "flight"}
    /\ \E gap \in Gaps(ghost.scope) :
          /\ ghost.scope = "frames" => ghost.frame.n < MaxFrames
          /\ ghost.scope = "flight" => clock + gap <= FlightClock
          /\ Step(Did(Elapse(World, gap), "idle", TRUE))

\* the oldest rapid-fire timer fires; timers are not cancelled by a pause
TimerFires ==
    /\ page = "ready"
    /\ timers # <<>>
    /\ \E isCrit \in BOOLEAN :
          Step(RapidFireCallback(Did([World EXCEPT !.timers = Tail(@)], "timer", TRUE),
                                 Head(timers).target, isCrit))

\* the user reloads the page: every global is rebuilt, storage stays
Reload ==
    /\ "reload" \in Buttons(ghost.scope)
    /\ ghost.reloads < Scope(ghost.scope).reloads
    /\ Commit(InitGame(PageLoad(revision, localStorage,
                                [ghost EXCEPT !.reloads = @ + 1,
                                              !.afterLoad = NoSnapshot])))

Next ==
    \/ \E stat \in Stats : ClickUpgrade(stat)
    \/ ClickUpgradeCastleHp
    \/ \E id \in SkillIds : ClickSkillNode(id)
    \/ ClickSkills
    \/ ClickCloseSkills
    \/ ClickStart
    \/ ClickPause
    \/ ClickCallWave
    \/ Tick
    \/ TimerFires
    \/ Reload

Spec == Init /\ [][Next]_vars

----------------------------------------------------------------------------
(* Claims C1 to C10. *)

\* C1: an upgrade (Hero.upgrade, upgradeCastleHp) or purchaseSkill called with
\* gold below the price is rejected and changes nothing: gold, every upgrade
\* and skill level and every hero and castle stat stay as they were.
C1_ShortPurchaseChangesNothing ==
    [][ghost'.op.short =>
          /\ TDState' = TDState
          /\ UpgradeLevels' = UpgradeLevels
          /\ SkillLevels' = SkillLevels]_vars

\* Hero.upgrade has just returned early for want of gold
C1_Witness ==
    /\ ghost.op.name = "upgrade" /\ ghost.op.short /\ ~ghost.op.ok
    /\ \E stat \in Stats : TDState.gold < GetCost(World, stat)

\* C2: a hero upgrade called with gold >= cost takes exactly getCost(stat), as
\* it was before the purchase, from gold and adds exactly 1 to that stat's
\* level; no other level changes.
C2_UpgradePaysCostAddsOneLevel ==
    [][(ghost'.op.name = "upgrade" /\ ~ghost'.op.short) =>
          \E stat \in Stats :
              /\ TDState'.gold = TDState.gold - GetCost(World, stat)
              /\ UpgradeLevels' = [UpgradeLevels EXCEPT ![stat] = @ + 1]]_vars

\* Hero.upgrade has just bought a level
C2_Witness ==
    /\ ghost.op.name = "upgrade" /\ ghost.op.ok /\ ~ghost.op.short
    /\ \E stat \in Stats : UpgradeLevels[stat] = 1

\* C3: die() runs at most once for each spawned enemy, so its reward is paid
\* once and enemiesKilled counts it once, also when several projectiles hit
\* the enemy in one frame.
C3_EnemyDiesOnce == ghost.excessKills = 0 /\ ghost.excessGold = 0

\* an enemy has been killed while another projectile was in flight to it
C3_Witness ==
    /\ ghost.scope = "field"
    /\ ghost.op.name = "gameLoop"
    /\ \E i \in 1..Len(TDState.projectiles) : TDState.projectiles[i].orphan

\* C4: betweenWaves becomes true (the wave is marked cleared) only when every
\* enemy of the wave has been spawned and no enemy is active.
C4_ClearedOnlyWhenWaveIsOver ==
    [][(~TDState.betweenWaves /\ TDState'.betweenWaves) =>
          /\ TDState'.waveManager.spawned = TDState'.waveManager.enemiesToSpawn
          /\ \A k \in 1..Len(TDState'.enemies) : ~TDState'.enemies[k].active]_vars

\* C5: endWave runs at most once for a wave: once it has run for wave N, no
\* later frame pays the wave-clear reward for N again.
C5_WaveClearedOnce == ghost.cleared.times <= 1

\* a frame has run after the frame in which endWave ran for the wave
C5_Witness ==
    /\ ghost.cleared.times = 1 /\ ghost.cleared.later
    /\ ghost.cleared.wave = TDState.wave
    /\ ghost.op.name = "gameLoop" /\ TDState.betweenWaves

\* C6: callWaveEarly takes effect only between waves, that is, when the
\* previous wave has been cleared and no enemy is active.
C6_CallWaveOnlyBetweenWaves ==
    (ghost.op.name = "callWaveEarly" /\ ghost.op.ok) => ActiveEnemies(World) = {}

\* C7: a projectile whose target has been deactivated before the impact
\* deactivates itself in its next update and deals no damage.
C7_OrphanedProjectileStops == ~ghost.orphan.hit /\ ~ghost.orphan.kept

\* C8: loadGame in a new session gives gold, wave, castle hp, the hero's
\* damage, range, fireRate and crit and the upgrade levels the values they had
\* when saveGame wrote the save.
C8_SaveLoadRoundTrip ==
    (ghost.op.name = "initGame" /\ ghost.afterLoad.valid /\ ghost.atSave.valid) =>
        /\ ghost.afterLoad.gold = ghost.atSave.gold
        /\ ghost.afterLoad.wave = ghost.atSave.wave
        /\ ghost.afterLoad.castleHp = ghost.atSave.castleHp
        /\ ghost.afterLoad.damage = ghost.atSave.damage
        /\ ghost.afterLoad.range = ghost.atSave.range
        /\ ghost.afterLoad.fireRate = ghost.atSave.fireRate
        /\ ghost.afterLoad.crit = ghost.atSave.crit
        /\ ghost.afterLoad.upgradeLevels = ghost.atSave.upgradeLevels

\* the page has been reloaded over a save this session wrote after an upgrade
C8_Witness ==
    /\ ghost.op.name = "initGame" /\ ghost.op.ok /\ ghost.reloads = 1
    /\ ghost.afterLoad.valid /\ ghost.atSave.valid
    /\ ghost.atSave.gold # 100
    /\ \E stat \in DOMAIN UpgradeLevels : UpgradeLevels[stat] = 1

\* C9: after initGame has loaded a save, the hero's fireRate and speed are the
\* values they had when the save was written: skill effects are not applied a
\* second time.
C9_SkillEffectsOnceAcrossReload ==
    (ghost.op.name = "initGame" /\ ghost.op.ok /\ ghost.atSave.valid) =>
        /\ TDState.hero.fireRate = ghost.atSave.fireRate
        /\ TDState.hero.speed = ghost.atSave.speed

\* C10: a save that is not JSON is treated as no save: initGame ends normally
\* with nothing loaded, gold = 100 + the starting-gold bonus and wave 0.
C10_MalformedSaveIsNoSave ==
    (ghost.op.name = "initGame" /\ localStorage.game.kind = "malformed") =>
        /\ page = "ready"
        /\ ~ghost.op.ok
        /\ TDState.gold = 100 + StartingGoldBonus(MetaUpgrades)
        /\ TDState.wave = 0

----------------------------------------------------------------------------
(* Claims C11 to C20. *)

\* C11: castle destruction is terminal: once castle hp has come to 0, in the
\* rest of the session gameOver stays true, running stays false and no
\* operation brings castle hp above 0 again.
C11_GameOverIsTerminal ==
    [][(TDState.gameOver /\ ghost'.reloads = ghost.reloads) =>
          /\ TDState'.gameOver
          /\ ~TDState'.running
          /\ TDState'.castle.hp = 0]_vars

\* C12: on game over the main save is removed and no later operation of the
\* run writes it again, while the meta record is written, with the gems of the
\* run, and stays.
C12_GameOverClearsSaveKeepsMeta ==
    TDState.gameOver =>
        /\ localStorage.game.kind = "absent"
        /\ localStorage.meta.kind = "json"
        /\ localStorage.meta.doc.gems = MetaUpgrades.gems

\* after the game over of a run that began from a save, the player has bought
\* an upgrade
C12_Witness ==
    /\ TDState.gameOver /\ ghost.scope = "ruin"
    /\ ghost.op.name = "upgrade" /\ ghost.op.ok
    /\ localStorage.game.kind = "absent" /\ localStorage.meta.kind = "json"

\* C13: a deferred callback (the rapid-fire follow-up shot) that fires while
\* the game is paused or over is a no-op: it changes neither the projectile
\* pool nor the wave counter.
C13_CallbackIdleWhilePaused ==
    [][(ghost'.op.name = "timer" /\ (~TDState.running \/ TDState.gameOver)) =>
          /\ TDState'.projectiles = TDState.projectiles
          /\ TDState'.wave = TDState.wave]_vars

\* C14: the loop halts while running is false or gameOver is true: no frame is
\* held for a paused game, and a frame that comes after a game over changes
\* nothing and requests no further frame.
C14_LoopHaltsWhileNotRunning ==
    [][/\ (~TDState'.running /\ ~TDState'.gameOver) => animationFrameId' = 0
       /\ (ghost'.op.name = "gameLoop" /\ (~TDState.running \/ TDState.gameOver)) =>
              /\ TDState' = TDState
              /\ animationFrameId' = 0]_vars

\* the frame requested by the update that ended the game has come and gone
C14_Witness ==
    /\ TDState.gameOver /\ ~TDState.running
    /\ ghost.op.name = "gameLoop"
    /\ animationFrameId = 0

\* C15: the hero's stats never exceed their hard caps, whatever the upgrades,
\* skill purchases, saves and loads: damage <= 10000, range <= 500,
\* fireRate <= 20 and crit <= 90.
C15_HeroStatsWithinCaps ==
    /\ TDState.hero.damage <= HERO_DAMAGE
    /\ TDState.hero.range <= HERO_RANGE
    /\ TDState.hero.fireRate <= HERO_FIRE_RATE
    /\ TDState.hero.crit <= CRIT_CHANCE

C17_PoolsNeverShrink ==
    [][ghost'.op.name = "gameLoop" =>
          /\ Len(TDState'.enemies) >= Len(TDState.enemies)
          /\ Len(TDState'.projectiles) >= Len(TDState.projectiles)]_vars

----------------------------------------------------------------------------
(* generateWaveComposition for every wave 1 .. MaxWave + 1: the page is opened *)
(* over nothing or over a save written in wave n, and the player starts the   *)
(* game and calls the next wave.                                              *)

\* a save written by a pause in wave n
WaveStorage(rev, n) ==
    IF n = 0 THEN FreshStorage(rev)
    ELSE [game |-> IF rev = 8 THEN [MidGameItem EXCEPT !.doc.wave = n]
                   ELSE [EarlyGameItem EXCEPT !.doc.wave = n],
          meta |-> AbsentItem]

InitWaves ==
    \E rev \in {8, 12} : \E n \in 0..MaxWave :
        LET w == InitGame(PageLoad(rev, WaveStorage(rev, n), NewGhost("roster")))
        IN  /\ revision = rev
            /\ TDState = w.td
            /\ UpgradeLevels = w.ul
            /\ SkillLevels = w.sl
            /\ MetaUpgrades = w.mu
            /\ localStorage = w.ls
            /\ gamePath = w.path
            /\ timers = w.timers
            /\ skillsModal = w.modal
            /\ animationFrameId = w.frame
            /\ clock = w.now
            /\ dt = w.dt
            /\ canvasHeight = w.height
            /\ startButton = w.start
            /\ page = w.page
            /\ ghost = w.g

NextWaves == ClickStart \/ ClickCallWave \/ Tick

SpecWaves == InitWaves /\ [][NextWaves]_vars

\* how many entries of the generated composition are of the type
CountOf(type) ==
    Cardinality({i \in 1..TDState.waveManager.enemiesToSpawn :
                    WaveCompositionAt(TDState.waveManager.waveComposition, i) = type})

\* C18: the composition generated for wave N, whatever its order, is 8 + 2N
\* NORMAL, N RUNNER iff N > 1, floor(N/2) TANK iff N > 3, floor(N/3) SPLITTER
\* iff N > 5 and floor(N/4) HEALER iff N > 7, and enemiesToSpawn is the total.
C18_CompositionByWave ==
    LET N == TDState.waveManager.wave
    IN  (N > 0 /\ TDState.waveManager.waveComposition.wave = N) =>
            /\ CountOf("NORMAL") = 8 + 2 * N
            /\ CountOf("RUNNER") = (IF N > 1 THEN N ELSE 0)
            /\ CountOf("TANK") = (IF N > 3 THEN N \div 2 ELSE 0)
            /\ CountOf("SPLITTER") = (IF N > 5 THEN N \div 3 ELSE 0)
            /\ CountOf("HEALER") = (IF N > 7 THEN N \div 4 ELSE 0)
            /\ TDState.waveManager.enemiesToSpawn =
                   (8 + 2 * N) + (IF N > 1 THEN N ELSE 0) + (IF N > 3 THEN N \div 2 ELSE 0)
                   + (IF N > 5 THEN N \div 3 ELSE 0) + (IF N > 7 THEN N \div 4 ELSE 0)

\* wave 8, the first with all five types, has been generated and shuffled
C18_Witness ==
    /\ TDState.waveManager.wave = 8
    /\ TDState.waveManager.waveComposition = [wave |-> 8, shuffle |-> "reversed"]
    /\ TDState.waveManager.enemiesToSpawn = 40

----------------------------------------------------------------------------
(* The hero's shots against the clock: a new game, the player starts it and  *)
(* buys upgrades; a frame comes every FrameTime ms.                          *)

InitShots ==
    \E rev \in {8, 12} :
        LET w == InitGame(PageLoad(rev, FreshStorage(rev), NewGhost("clock")))
        IN  /\ revision = rev
            /\ TDState = w.td
            /\ UpgradeLevels = w.ul
            /\ SkillLevels = w.sl
            /\ MetaUpgrades = w.mu
            /\ localStorage = w.ls
            /\ gamePath = w.path
            /\ timers = w.timers
            /\ skillsModal = w.modal
            /\ animationFrameId = w.frame
            /\ clock = w.now
            /\ dt = w.dt
            /\ canvasHeight = w.height
            /\ startButton = w.start
            /\ page = w.page
            /\ ghost = w.g

NextShots ==
    \/ \E stat \in Stats : ClickUpgrade(stat)
    \/ ClickStart
    \/ Tick

SpecShots == InitShots /\ [][NextShots]_vars

\* C19: two primary shots of the hero are never less than 1000/fireRate ms
\* apart, fireRate being the one in effect at the later shot; with fireRate 1.2
\* the second shot does not come within 833 ms of the first.
C19_ShotsAtLeastOnePeriodApart ==
    ghost.shots.n >= 2 =>
        /\ (ghost.shots.at - ghost.shots.before) * ghost.shots.rate >= 100000
        /\ ghost.shots.rate = 120 => ghost.shots.at - ghost.shots.before > 833

\* the hero has fired, the player has bought a fireRate upgrade (1.35 shots/s),
\* and the hero has fired again 750 ms after the first shot
C19_Witness ==
    /\ ghost.shots.n >= 2
    /\ ghost.shots.rate = 135
    /\ ghost.shots.at - ghost.shots.before = 750
    /\ TDState.hero.lastShot = ghost.shots.at

\* C20: the death of a SPLITTER activates exactly 2 child enemies, the number
\* of active enemies going from k to k + 1, and the two children's maxHp
\* together are strictly less than the parent's maxHp.
C20_SplitterLeavesTwoSmallerChildren ==
    ghost.split.happened =>
        /\ ghost.split.after = ghost.split.before + 1
        /\ ghost.split.children < ghost.split.parent

\* a splitter of wave 6 has just died and its two children are in play
C20_Witness ==
    /\ ghost.split.happened /\ TDState.wave = 6
    /\ ghost.split.parent = EnemyTypes["SPLITTER"].hp * (20 + 3 * 6)
    /\ Cardinality({k \in ActiveEnemies(World) : TDState.enemies[k].type = "CHILD"}) = 2

----------------------------------------------------------------------------
(* Claims C21 to C30. *)

\* C21: both children of a dying SPLITTER are placed at the parent's death
\* location, at x - 10 and x + 10 and the same y, whichever pool slots they are
\* assigned.
C21_ChildrenPlacedAtDeathLocation ==
    ghost.split.happened =>
        /\ ghost.split.first = <<Shift(ghost.split.at[1], -10), ghost.split.at[2]>>
        /\ ghost.split.second = <<Shift(ghost.split.at[1], 10), ghost.split.at[2]>>

----------------------------------------------------------------------------
(* The EMP blast: a game saved in wave 7; the player calls wave 8, whose     *)
(* first enemies here are the healers, starts, and uses the blast; a frame   *)
(* comes every StunFrameTime ms.                                             *)

InitStun ==
    \E rev \in {8, 12} :
        LET w == InitGame(PageLoad(rev, WaveStorage(rev, 7), NewGhost("stun")))
        IN  /\ revision = rev
            /\ TDState = w.td
            /\ UpgradeLevels = w.ul
            /\ SkillLevels = w.sl
            /\ MetaUpgrades = w.mu
            /\ localStorage = w.ls
            /\ gamePath = w.path
            /\ timers = w.timers
            /\ skillsModal = w.modal
            /\ animationFrameId = w.frame
            /\ clock = w.now
            /\ dt = w.dt
            /\ canvasHeight = w.height
            /\ startButton = w.start
            /\ page = w.page
            /\ ghost = w.g

NextStun == ClickStart \/ ClickCallWave \/ ClickEmpBlast \/ Tick

SpecStun == InitStun /\ [][NextStun]_vars

\* C28: while an enemy is stunned (now < stunnedUntil) its update changes
\* nothing: it does not move or advance on the path, does not reach the end or
\* damage the castle, and a HEALER does not advance its heal timer or heal.
C28_StunnedUpdateChangesNothing == ~ghost.stun.changed

\* update has been called on a stunned healer whose timer had started, with a
\* damaged enemy next to it
C28_Witness ==
    /\ ghost.stun.seen /\ ghost.op.name = "gameLoop"
    /\ \E k \in ActiveEnemies(World) :
          /\ TDState.enemies[k].special = "HEAL"
          /\ clock < TDState.enemies[k].stunnedUntil
          /\ TDState.enemies[k].specialTimer > 0
          /\ \E j \in ActiveEnemies(World) \ {k} :
                TDState.enemies[j].hp < TDState.enemies[j].maxHp

----------------------------------------------------------------------------
(* Healers: Revision 8, a game saved in wave 7 with damage bought twice; the *)
(* player calls wave 8, whose first enemies here are the two healers, and    *)
(* starts; the hero shoots once; a frame comes every HealerFrameTime ms.     *)

HealerStorage ==
    [game |-> [MidGameItem EXCEPT
                   !.doc.wave = 7,
                   !.doc.hero.damage = 25 + 6 * HealerUpgrades,
                   !.doc.upgradeLevels = [ZeroLevels(8) EXCEPT !.damage = HealerUpgrades]],
     meta |-> AbsentItem]

InitHealers ==
    LET w == InitGame(PageLoad(8, HealerStorage, NewGhost("healer")))
    IN  /\ revision = 8
        /\ TDState = w.td
        /\ UpgradeLevels = w.ul
        /\ SkillLevels = w.sl
        /\ MetaUpgrades = w.mu
        /\ localStorage = w.ls
        /\ gamePath = w.path
        /\ timers = w.timers
        /\ skillsModal = w.modal
        /\ animationFrameId = w.frame
        /\ clock = w.now
        /\ dt = w.dt
        /\ canvasHeight = w.height
        /\ startButton = w.start
        /\ page = w.page
        /\ ghost = w.g

NextHealers == ClickStart \/ ClickCallWave \/ Tick

SpecHealers == InitHealers /\ [][NextHealers]_vars

----------------------------------------------------------------------------
(* Piercing shots: Revision 12, a game saved in wave 25 with piercingShot    *)
(* bought once or not at all and damage bought PierceUpgrades times, so that *)
(* a hit kills; the player starts and calls the next wave.                   *)

\* the save with piercingShot at level n
PierceStorage(n) ==
    [game |-> [LateGameItem EXCEPT
                   !.doc.hero.damage = 25 + 6 * PierceUpgrades,
                   !.doc.upgradeLevels = [ZeroLevels(12) EXCEPT !.damage = PierceUpgrades],
                   !.doc.skillLevels = [ZeroSkills EXCEPT !.multiShot = 1,
                                                          !.piercingShot = n]],
     meta |-> AbsentItem]

InitPierce ==
    \E n \in 0..MaxSkillLevel :
        LET w == InitGame(PageLoad(12, PierceStorage(n), NewGhost("pierce")))
        IN  /\ revision = 12
            /\ TDState = w.td
            /\ UpgradeLevels = w.ul
            /\ SkillLevels = w.sl
            /\ MetaUpgrades = w.mu
            /\ localStorage = w.ls
            /\ gamePath = w.path
            /\ timers = w.timers
            /\ skillsModal = w.modal
            /\ animationFrameId = w.frame
            /\ clock = w.now
            /\ dt = w.dt
            /\ canvasHeight = w.height
            /\ startButton = w.start
            /\ page = w.page
            /\ ghost = w.g

NextPierce == ClickStart \/ ClickCallWave \/ Tick

SpecPierce == InitPierce /\ [][NextPierce]_vars

\* C30: a projectile with piercing level L damages at most L + 1 enemies over
\* its lifetime, never the same enemy twice, and is inactive right after its hit
\* number L + 1; with L = 0 the projectile that hits has hit exactly one enemy.
C30_PierceAtMostLevelPlusOne ==
    /\ ~ghost.pierce.over /\ ~ghost.pierce.kept /\ ~ghost.pierce.again
    /\ (ghost.pierce.seen /\ ghost.pierce.level = 0) => ghost.pierce.hits = 1
    /\ \A i \in 1..Len(TDState.projectiles) :
          LET p == TDState.projectiles[i]
          IN  p.active => /\ p.hits <= p.level
                          /\ p.pierceLeft = p.level - p.hits
                          /\ Cardinality(p.hitEnemies) = p.hits

\* a projectile of piercing level 1 has made its second hit, which killed the
\* second of two enemies, and is inactive
C30_Witness ==
    /\ ghost.pierce.seen /\ ghost.pierce.level = 1 /\ ghost.pierce.hits = 2
    /\ \A i \in 1..Len(TDState.projectiles) : ~TDState.projectiles[i].active
    /\ ghost.exits.dead = 2 /\ ghost.op.name = "gameLoop"

----------------------------------------------------------------------------
(* The price list: a saved game with gold to spend and no upgrade bought yet, *)
(* under every level of the upgrade discount; the player buys upgrades,      *)
(* starts and pauses.                                                        *)

\* a save with the gold for CostUpgrades upgrades and the discount level d
CostStorage(rev, d) ==
    [game |-> IF rev = 8
              THEN [MidGameItem EXCEPT !.doc.gold = 900, !.doc.hero.damage = 25,
                                       !.doc.upgradeLevels = ZeroLevels(8)]
              ELSE EarlyGameItem,
     meta |-> [MetaItem EXCEPT !.doc.levels.upgradeDiscount = d]]

\* Revision 12, a save of wave 25 with legolas at its tenth level: fireRate
\* 1.2 + 10 * 0.5 from the purchases and 5 more from each of two page loads
\* (applyAllLoadedEffects adds 0.5 * level to the saved value) makes 16.2
VeteranItem ==
    [LateGameItem EXCEPT !.doc.gold = 900, !.doc.castle.hp = 1000,
                         !.doc.hero.fireRate = 1620,
                         !.doc.skillLevels.legolas = 10]

\* the saves of the price list
CostStorages(rev, d) ==
    {CostStorage(rev, d)}
    \cup (IF rev = 12
          THEN {[game |-> VeteranItem,
                 meta |-> [MetaItem EXCEPT !.doc.levels.upgradeDiscount = d]]}
          ELSE {})

InitCosts ==
    \E rev \in {8, 12} : \E d \in 0..MaxDiscountLevel :
      \E storage \in CostStorages(rev, d) :
        LET w == InitGame(PageLoad(rev, storage, NewGhost("costs")))
        IN  /\ revision = rev
            /\ TDState = w.td
            /\ UpgradeLevels = w.ul
            /\ SkillLevels = w.sl
            /\ MetaUpgrades = w.mu
            /\ localStorage = w.ls
            /\ gamePath = w.path
            /\ timers = w.timers
            /\ skillsModal = w.modal
            /\ animationFrameId = w.frame
            /\ clock = w.now
            /\ dt = w.dt
            /\ canvasHeight = w.height
            /\ startButton = w.start
            /\ page = w.page
            /\ ghost = w.g

NextCosts ==
    \/ \E stat \in Stats : ClickUpgrade(stat)
    \/ ClickStart
    \/ ClickPause

SpecCosts == InitCosts /\ [][NextCosts]_vars

\* C22: for every stat and a fixed discount, the upgrade cost
\* ceil(baseCost * 1.18^level * discount) does not fall when the level rises by
\* one, and no level ever decreases within a session.
C22_CostNonDecreasingInLevel ==
    [][\A stat \in DOMAIN UpgradeLevels :
          /\ UpgradeLevels'[stat] >= UpgradeLevels[stat]
          /\ (UpgradeLevels'[stat] = UpgradeLevels[stat] + 1 /\ MetaUpgrades' = MetaUpgrades)
                => GetCost(World', stat) >= GetCost(World, stat)]_vars

\* a stat has been bought up to the fifth level under the largest discount
C22_Witness ==
    /\ ghost.scope = "costs"
    /\ MetaUpgrades.levels.upgradeDiscount = MaxDiscountLevel
    /\ \E stat \in DOMAIN UpgradeLevels : UpgradeLevels[stat] = CostUpgrades
    /\ ghost.op.name = "upgrade" /\ ghost.op.ok

----------------------------------------------------------------------------
(* Frame times: a new game whose frames come 16 ms or 2 s apart, with pauses *)
(* during which time passes.                                                 *)

InitFrames ==
    \E rev \in {8, 12} :
        LET w == InitGame(PageLoad(rev, FreshStorage(rev), NewGhost("frames")))
        IN  /\ revision = rev
            /\ TDState = w.td
            /\ UpgradeLevels = w.ul
            /\ SkillLevels = w.sl
            /\ MetaUpgrades = w.mu
            /\ localStorage = w.ls
            /\ gamePath = w.path
            /\ timers = w.timers
            /\ skillsModal = w.modal
            /\ animationFrameId = w.frame
            /\ clock = w.now
            /\ dt = w.dt
            /\ canvasHeight = w.height
            /\ startButton = w.start
            /\ page = w.page
            /\ ghost = w.g

NextFrames == ClickStart \/ ClickPause \/ Tick \/ Idle

SpecFrames == InitFrames /\ [][NextFrames]_vars

\* C23: the dt passed to every update is within [0.01 s, 0.1 s] whatever the
\* gap between the frame timestamps (and is the gap itself where that lies
\* within the range), so no tick advances the simulation by more than 100 ms,
\* even after a long pause or a time in the background.
C23_DeltaTimeClamped ==
    ghost.frame.updated =>
        /\ dt >= 10 /\ dt <= 100
        /\ (ghost.frame.gap >= 10 /\ ghost.frame.gap <= 100) => dt = ghost.frame.gap
        /\ TDState.lastTime <= clock

\* a frame 2 s after the one before has been given a dt of 100 ms
C23_Witness ==
    /\ ghost.op.name = "gameLoop" /\ TDState.running
    /\ ghost.frame.updated /\ ghost.frame.gap = 2000
    /\ dt = 100

\* C24: the path is regenerated only at a wave start and never while an enemy
\* is active, so the active enemies always walk the path they were spawned on.
C24_PathKeptWhileEnemiesActive ==
    [][(gamePath' # gamePath /\ ghost'.reloads = ghost.reloads) =>
          ActiveEnemies(World) = {}]_vars

----------------------------------------------------------------------------
(* The first wave of a new game under a scheduler that keeps calling the     *)
(* requested frame: the player starts, pauses and resumes.                   *)

InitLive ==
    \E rev \in {8, 12} :
        LET w == InitGame(PageLoad(rev, FreshStorage(rev), NewGhost("wave")))
        IN  /\ revision = rev
            /\ TDState = w.td
            /\ UpgradeLevels = w.ul
            /\ SkillLevels = w.sl
            /\ MetaUpgrades = w.mu
            /\ localStorage = w.ls
            /\ gamePath = w.path
            /\ timers = w.timers
            /\ skillsModal = w.modal
            /\ animationFrameId = w.frame
            /\ clock = w.now
            /\ dt = w.dt
            /\ canvasHeight = w.height
            /\ startButton = w.start
            /\ page = w.page
            /\ ghost = w.g

NextLive == ClickStart \/ ClickPause \/ Tick

\* requestAnimationFrame: a requested frame that is not cancelled is called
SpecLive == InitLive /\ [][NextLive]_vars /\ WF_vars(Tick)

\* the loop is running with a frame requested
Ticking == TDState.running /\ animationFrameId > 0

\* every enemy of the first wave has been spawned and has left play
WaveSpent ==
    /\ TDState.wave = 1 /\ ~TDState.gameOver
    /\ TDState.waveManager.spawnFinished
    /\ ActiveEnemies(World) = {}

\* C25: every started wave is eventually cleared: if the game keeps ticking,
\* then once every enemy of the wave has died or reached the castle endWave
\* runs for that wave, however ticks interleave with pauseGame and startGame.
\* Stated for the first wave.
C25_StartedWaveEventuallyCleared ==
    ([]<>Ticking) =>
        (WaveSpent ~> (ghost.cleared.wave = 1 /\ ghost.cleared.times >= 1))

\* C26: every spawned enemy leaves play once and in one way: it dies (reward
\* paid, kill counted) or it reaches the end of the path (castle damaged, no
\* reward), never both and never twice.
C26_EnemyLeavesPlayOnce ==
    /\ ghost.exits.twice = 0
    /\ ghost.spawns = ghost.exits.dead + ghost.exits.arrived
                         + Cardinality(ActiveEnemies(World))
    /\ TDState.enemiesKilled = ghost.exits.kills + ghost.exits.dead

\* of the enemies spawned, one has been killed and one has reached the castle
C26_Witness ==
    /\ ghost.exits.dead >= 1 /\ ghost.exits.arrived >= 1
    /\ ghost.spawns = ghost.exits.dead + ghost.exits.arrived
    /\ TDState.castle.hp < CASTLE_START_HP

\* C27: gold is never negative, whatever the kills, wave clears, early calls,
\* hero upgrades, castle upgrades and skill purchases: every payment comes
\* after a test that gold covers it.
C27_GoldNeverNegative == TDState.gold >= 0

\* a skill has just been bought and the gold left does not pay for
\* piercingShot, which still has its onclick
C27_Witness ==
    /\ ghost.op.name = "purchaseSkill" /\ ghost.op.ok
    /\ skillsModal.open /\ "piercingShot" \in skillsModal.clickable
    /\ TDState.gold < GetSkillCost(World, "piercingShot")

----------------------------------------------------------------------------
(* Claims C31 to C39. *)

(* Projectiles in flight against the clock: a new game; the player starts,    *)
(* pauses and resumes; a frame comes every FlightFrameTime ms, and the same   *)
(* time can pass while the game is paused.                                    *)

InitFlight ==
    \E rev \in {8, 12} :
        LET w == InitGame(PageLoad(rev, FreshStorage(rev), NewGhost("flight")))
        IN  /\ revision = rev
            /\ TDState = w.td
            /\ UpgradeLevels = w.ul
            /\ SkillLevels = w.sl
            /\ MetaUpgrades = w.mu
            /\ localStorage = w.ls
            /\ gamePath = w.path
            /\ timers = w.timers
            /\ skillsModal = w.modal
            /\ animationFrameId = w.frame
            /\ clock = w.now
            /\ dt = w.dt
            /\ canvasHeight = w.height
            /\ startButton = w.start
            /\ page = w.page
            /\ ghost = w.g

NextFlight == ClickStart \/ ClickPause \/ Tick \/ Idle

SpecFlight == InitFlight /\ [][NextFlight]_vars

\* C31: no projectile outlives the 3000 ms failsafe: at the end of every tick
\* (a call of update), every projectile that is still active was spawned at
\* most 3000 ms before that tick, with or without a live target.
C31_NoProjectileOutlivesFailsafe ==
    [][(ghost'.op.name \in {"gameLoop", "startGame"} /\ TDState'.lastTime = clock') =>
          \A i \in 1..Len(TDState'.projectiles) :
              TDState'.projectiles[i].active =>
                  clock' - TDState'.projectiles[i].spawnTime <= 3000]_vars

\* a tick has ended with one projectile exactly 3000 ms old still in flight
\* and a younger one beside it
C31_Witness ==
    /\ ghost.op.name = "gameLoop" /\ TDState.lastTime = clock
    /\ \E i, j \in 1..Len(TDState.projectiles) :
          /\ TDState.projectiles[i].active /\ TDState.projectiles[j].active
          /\ clock - TDState.projectiles[i].spawnTime = 3000
          /\ clock - TDState.projectiles[j].spawnTime < 3000

\* C32: acquiring an enemy slot, for a wave spawn or a split child, never
\* overwrites an active enemy: it takes an inactive slot when there is one and
\* appends a slot only when there is none, so no two live enemies share a slot
\* and the enemies in play are the spawned ones that have not left.
C32_AcquireNeverOverwrites ==
    /\ ~ghost.acquire.overwrote /\ ~ghost.acquire.grew
    /\ Cardinality(ActiveEnemies(World))
           = ghost.spawns - ghost.exits.dead - ghost.exits.arrived

\* a splitter has just died: its first child has taken the slot it left, the
\* second a slot appended to the pool, which had none free
C32_Witness ==
    /\ ghost.acquire.reused /\ ghost.acquire.appended
    /\ ghost.split.happened /\ ghost.op.name = "gameLoop"
    /\ Cardinality({k \in ActiveEnemies(World) : TDState.enemies[k].type = "CHILD"}) = 2

----------------------------------------------------------------------------
(* The spawn timer: a new game, or a game saved in wave CadenceWave, so that *)
(* the next wave has the shortest interval; the player starts, pauses,       *)
(* resumes and calls the wave; a frame comes every CadenceFrameTime ms.      *)

InitCadence ==
    \E rev \in {8, 12} : \E n \in {0, CadenceWave} :
        LET w == InitGame(PageLoad(rev, WaveStorage(rev, n), NewGhost("cadence")))
        IN  /\ revision = rev
            /\ TDState = w.td
            /\ UpgradeLevels = w.ul
            /\ SkillLevels = w.sl
            /\ MetaUpgrades = w.mu
            /\ localStorage = w.ls
            /\ gamePath = w.path
            /\ timers = w.timers
            /\ skillsModal = w.modal
            /\ animationFrameId = w.frame
            /\ clock = w.now
            /\ dt = w.dt
            /\ canvasHeight = w.height
            /\ startButton = w.start
            /\ page = w.page
            /\ ghost = w.g

NextCadence == ClickStart \/ ClickPause \/ ClickCallWave \/ Tick

SpecCadence == InitCadence /\ [][NextCadence]_vars

\* C33: while a wave is spawning, at most one enemy is spawned per tick, the
\* entries of the composition are spawned in list order, none skipped and none
\* repeated, and between two consecutive spawns the simulated time that has
\* accumulated exceeds max(100, 600 - 10 * wave) ms.
C33_SpawnCadence ==
    /\ ghost.cadence.tick <= 1
    /\ ~ghost.cadence.order
    /\ ~ghost.cadence.early
    /\ Paced(World) => ghost.cadence.last = TDState.waveManager.spawned

\* the second enemy of wave 60 has been spawned in the frame of a resume, the
\* 10 ms of which took the timer past the interval
C33_Witness ==
    /\ TDState.waveManager.wave = CadenceWave + 1 /\ TDState.waveManager.spawning
    /\ ghost.cadence.last = 2 /\ ghost.cadence.since = 0
    /\ ghost.cadence.tick = 1 /\ dt = 10 /\ ghost.op.name = "startGame"
    /\ TDState.waveManager.spawnTimer = 0

----------------------------------------------------------------------------
(* The castle's hp, Revision 12.  Either a game saved in wave 4 with the     *)
(* castle damaged and a hero who kills at one hit: the player starts and     *)
(* calls wave 5, whose end heals the castle.  Or a game saved in wave 35     *)
(* with the repair skill and the gold for a castle upgrade: the player       *)
(* starts, calls the wave and buys the upgrade, enemies reach the castle.    *)

CastleStorage(scope) ==
    [game |-> IF scope = "heal"
              THEN [EarlyGameItem EXCEPT
                        !.doc.wave = 4,
                        !.doc.castle.hp = 860,
                        !.doc.hero.damage = 25 + 6 * HealUpgrades,
                        !.doc.upgradeLevels =
                            [ZeroLevels(12) EXCEPT !.damage = HealUpgrades]]
              ELSE [LateGameItem EXCEPT
                        !.doc.wave = 35,
                        !.doc.gold = 1100,
                        !.doc.castle.hp = 990,
                        !.doc.hero.speed = 160,
                        !.doc.skillLevels =
                            [ZeroSkills EXCEPT !.multiShot = 1, !.piercingShot = 1,
                                               !.follower = 1, !.godSpeed = 1,
                                               !.repair = 1]],
     meta |-> AbsentItem]

InitCastle ==
    \E scope \in {"heal", "repair"} :
        LET w == InitGame(PageLoad(12, CastleStorage(scope), NewGhost(scope)))
        IN  /\ revision = 12
            /\ TDState = w.td
            /\ UpgradeLevels = w.ul
            /\ SkillLevels = w.sl
            /\ MetaUpgrades = w.mu
            /\ localStorage = w.ls
            /\ gamePath = w.path
            /\ timers = w.timers
            /\ skillsModal = w.modal
            /\ animationFrameId = w.frame
            /\ clock = w.now
            /\ dt = w.dt
            /\ canvasHeight = w.height
            /\ startButton = w.start
            /\ page = w.page
            /\ ghost = w.g

NextCastle == ClickUpgradeCastleHp \/ ClickStart \/ ClickCallWave \/ Tick

SpecCastle == InitCastle /\ [][NextCastle]_vars

\* C34: the castle's hp stays within its bounds, 0 <= castle.hp <=
\* castle.maxHp, in every reachable state, after any sequence of arrivals of
\* enemies, heals at the end of a wave, ticks of the repair skill and upgrades
\* of the castle's maxHp.
C34_CastleHpWithinBounds ==
    /\ 0 <= TDState.castle.hp
    /\ TDState.castle.hp <= TDState.castle.maxHp

\* the castle has been upgraded and hit, and the repair skill has brought its
\* hp back up to the new maxHp
C34_Witness ==
    /\ ghost.scope = "repair" /\ ghost.exits.arrived >= 1
    /\ UpgradeLevels["castleHp"] = 1
    /\ TDState.castle.maxHp = CASTLE_START_HP + 50
    /\ TDState.castle.hp = TDState.castle.maxHp
    /\ ghost.op.name = "gameLoop"

\* C35: when the castle is destroyed, the gems earned in the run are credited
\* to the meta gem balance exactly once, also when several enemies reach the
\* end of the path in the tick in which the castle's hp becomes 0; nothing
\* credits them again for the rest of the session.
C35_GemsCreditedOnce ==
    [][/\ (~TDState.gameOver /\ TDState'.gameOver) =>
              MetaUpgrades'.gems = MetaUpgrades.gems + TDState'.gemsEarned
       /\ (TDState.gameOver /\ ghost'.reloads = ghost.reloads) =>
              MetaUpgrades'.gems = MetaUpgrades.gems]_vars

----------------------------------------------------------------------------
(* The walk to the first waypoint: a new game on a canvas 600 or 650 px high, *)
(* the first preset of the path; the player starts; frames come 50 or 100 ms  *)
(* apart and the requested frame is always called.                            *)

\* rect.height of setupCanvas
WalkHeights == {600, 650}

InitWalk ==
    \E rev \in {8, 12} : \E h \in WalkHeights :
        LET w == InitGame([PageLoad(rev, FreshStorage(rev), NewGhost("walk"))
                               EXCEPT !.height = h])
        IN  /\ revision = rev
            /\ TDState = w.td
            /\ UpgradeLevels = w.ul
            /\ SkillLevels = w.sl
            /\ MetaUpgrades = w.mu
            /\ localStorage = w.ls
            /\ gamePath = w.path
            /\ timers = w.timers
            /\ skillsModal = w.modal
            /\ animationFrameId = w.frame
            /\ clock = w.now
            /\ dt = w.dt
            /\ canvasHeight = w.height
            /\ startButton = w.start
            /\ page = w.page
            /\ ghost = w.g

NextWalk == ClickStart \/ Tick

SpecWalk == InitWalk /\ [][NextWalk]_vars /\ WF_vars(Tick)

\* an enemy is on its way to gamePath[1]
OnFirstLeg == \E k \in ActiveEnemies(World) : TDState.enemies[k].first

\* C36: for every tick length the clock allows (dt in [0.01, 0.1] s) and every
\* speed, an active enemy that is neither stunned nor killed comes to the end
\* of the path after finitely many ticks: it cannot step back and forth across
\* a waypoint for ever without coming within 1 px of it.  Stated for the
\* first waypoint.
C36_EnemyPassesWaypoint == OnFirstLeg ~> ~OnFirstLeg

\* C37: a successful hero upgrade never decreases the upgraded stat: after
\* Hero.upgrade(stat) with enough gold each of damage, range, fireRate and crit
\* is at least what it was before the call, in every reachable state, also
\* after skill purchases.
C37_UpgradeNeverDecreasesStat ==
    [][(ghost'.op.name = "upgrade" /\ ghost'.op.ok)
          => \A stat \in Stats : TDState'.hero[stat] >= TDState.hero[stat]]_vars

\* C38: opening the skill-tree modal while the game is running pauses it, and
\* after the modal is closed the game can be resumed: the start button, the
\* one control that leads back to running = true, is displayed, so the session
\* is not stuck paused.
C38_ModalPauseCanBeResumed ==
    [][/\ ghost'.op.name = "openSkillsModal" => ~TDState'.running
       /\ (ghost'.op.name = "closeSkillsModal" /\ ~TDState'.gameOver)
             => startButton' = "block"]_vars

----------------------------------------------------------------------------
(* The fixed-pool revision (src/unnamed/part_003, revision 3 here).  TDState  *)
(* is that file's TDState: running, lastTime, wave, gold, enemiesAlive,       *)
(* enemiesKilled, enemiesPool, projectilesPool, tower, castle, waveManager.   *)
(* timers holds the times at which the pending setTimeout callbacks, all of   *)
(* them startNextWave, are due; animationFrameId is 1 while a tdLoop callback *)
(* is requested.  Lengths are in 1/100000 px, hp of the castle in 1/10000,    *)
(* speeds in thousandths, the spawn timer in hundredths of a ms.  Enemies are *)
(* spawned at y = 300, the tower's y, or at y = 600, which is out of the      *)
(* tower's range for the whole walk; so every distance the code takes is      *)
(* along x, or is more than 240 px.  The keys that buy upgrades are left out. *)

\* TD_CONFIG
baseGoldPerEnemy == 5
waveStartDelay == 2000
projectileLifetime == 4000
\* TDState.enemyPoolSize, TDState.projectilePoolSize: 300 and 200 in the source
enemyPoolSize == 2
projectilePoolSize == 1
\* calls of startGameGenesis, waves begun, projectiles in the pool, and the end
\* of the clock where the
\* game is stopped and started again and where it is left running
GenesisStarts == 2
GenesisWaves == 2
GenesisShots == 6
GenesisClock == 1200
LanesClock == 12000
\* ms between two frames, and between two looks at the clock while no frame
\* is requested
GenesisFrameTime == 60
\* the canvas of the page: width and height in px
GenesisCanvasWidth == 300
GenesisCanvasHeight == 700

Px == 100 * 1000

Abs(n) == IF n < 0 THEN -n ELSE n

Sign(n) == IF n < 0 THEN -1 ELSE IF n > 0 THEN 1 ELSE 0

\* the y of the tower, and randRange(100, canvas.height - 100) for the two
\* draws followed
SpawnYs == {300, GenesisCanvasHeight - 100}

\* Math.hypot(dx, dy) < r, or <= r: exact where dy = 0 and where |dy| > r
Hypot(dx, dy) == IF dy = 0 THEN Abs(dx) ELSE Max(Abs(dx), Abs(dy))

\* new Enemy(): reset()
NewPoolEnemy ==
    [active |-> FALSE, x |-> 0, y |-> 0, hp |-> 10, maxHp |-> 10, speed |-> 600,
     reward |-> 5, size |-> 18, targetReached |-> FALSE]

\* new Projectile()
NewPoolProjectile ==
    [active |-> FALSE, x |-> 0, y |-> 0, vx |-> 0, damage |-> 1, spawn |-> 0,
     ttl |-> 2000]

\* new Tower(), new CastleWall(), new WaveManagerClass()
NewTower ==
    [x |-> 240, y |-> 300, damage |-> 25, range |-> 240, fireRate |-> 120,
     lastShot |-> 0]

NewCastleWall == [hp |-> 500 * 10000, maxHp |-> 500 * 10000, armor |-> 10]

NewWaveManagerClass ==
    [wave |-> 0, spawning |-> FALSE, enemiesToSpawn |-> 0, spawned |-> 0,
     spawnTimer |-> 0]

\* the TDState literal after initTDState
InitTDState ==
    [running |-> FALSE, lastTime |-> 0, wave |-> 0, gold |-> 100,
     enemiesAlive |-> 0, enemiesKilled |-> 0,
     enemiesPool |-> [k \in 1..enemyPoolSize |-> NewPoolEnemy],
     projectilesPool |-> [i \in 1..projectilePoolSize |-> NewPoolProjectile],
     tower |-> NewTower, castle |-> NewCastleWall,
     waveManager |-> NewWaveManagerClass]

NewGenesisGhost(scope) ==
    [scope |-> scope, op |-> "load", starts |-> 0, spawns |-> 0, kills |-> 0,
     arrivals |-> 0, reset |-> FALSE]

\* the number of active enemies in enemiesPool
ActiveInPool(td) ==
    Cardinality({k \in 1..Len(td.enemiesPool) : td.enemiesPool[k].active})

\* stopGameGenesis
StopGameGenesis(s) == [s EXCEPT !.td.running = FALSE, !.frame = 0]

\* startGameGenesis
StartGameGenesis(s) ==
    IF s.td.running THEN s
    ELSE [s EXCEPT !.td.running = TRUE, !.td.lastTime = 0, !.td.wave = 0,
                   !.td.enemiesAlive = 0, !.td.enemiesKilled = 0,
                   !.timers = Append(@, s.now + waveStartDelay),
                   !.frame = 1,
                   !.g.starts = @ + 1,
                   !.g.reset = ActiveInPool(s.td) > 0]

\* WaveManagerClass.startNextWave
GenesisStartNextWave(s) ==
    LET wave == s.td.waveManager.wave + 1
    IN  [s EXCEPT !.td.waveManager =
                      [wave |-> wave, spawning |-> TRUE,
                       enemiesToSpawn |-> 6 + (wave * 12) \div 10,
                       spawned |-> 0, spawnTimer |-> 0],
                  !.td.wave = wave]

\* Math.max(120, 600 * 0.98^(wave * 0.12)) in hundredths of a ms, rounded up
\* (the timer is a whole number of ms), for the waves followed
GenesisInterval(wave) ==
    CASE wave = 0 -> 60000
      [] wave = 1 -> 59855
      [] wave = 2 -> 59710
      [] OTHER    -> 59566

\* WaveManagerClass.spawnTick, with the y that randRange returned
SpawnTick(s, y) ==
    LET free == {k \in 1..Len(s.td.enemiesPool) : ~s.td.enemiesPool[k].active}
    IN  IF free = {} THEN s
        ELSE LET k    == CHOOSE j \in free : \A i \in free : j <= i
                 wave == s.td.waveManager.wave
                 hp   == (3000 + 90 * wave + 50) \div 100
             IN  [s EXCEPT !.td.enemiesPool[k] =
                               [active |-> TRUE,
                                x |-> (GenesisCanvasWidth + 30) * Px, y |-> y,
                                hp |-> hp, maxHp |-> hp,
                                speed |-> 400 + 2 * wave,
                                reward |-> Max(1, (baseGoldPerEnemy * (100 + 2 * wave) + 50)
                                                      \div 100),
                                size |-> 18, targetReached |-> FALSE],
                           !.td.enemiesAlive = @ + 1,
                           !.td.waveManager.spawned = @ + 1,
                           !.g.spawns = @ + 1]

\* the while loop of WaveManagerClass.update
RECURSIVE SpawnLoop(_, _, _)
SpawnLoop(s, interval, y) ==
    LET wm == s.td.waveManager
    IN  IF wm.spawnTimer >= interval /\ wm.spawned < wm.enemiesToSpawn
        THEN LET s1 == SpawnTick(s, y)
             IN  SpawnLoop([s1 EXCEPT !.td.waveManager.spawnTimer = @ - interval],
                           interval, y)
        ELSE s

\* WaveManagerClass.update(dt)
GenesisWaveUpdate(s, ms, y) ==
    IF ~s.td.waveManager.spawning THEN s
    ELSE LET s1 == SpawnLoop([s EXCEPT !.td.waveManager.spawnTimer = @ + 100 * ms],
                             GenesisInterval(s.td.waveManager.wave), y)
             wm == s1.td.waveManager
         IN  IF wm.spawned >= wm.enemiesToSpawn /\ s1.td.enemiesAlive = 0
             THEN [s1 EXCEPT !.td.waveManager.spawning = FALSE,
                             !.td.gold = @ + (100 + wm.wave * 21) \div 10,
                             !.timers = Append(@, s1.now + 1500)]
             ELSE s1

\* Enemy.die
GenesisDie(s, k) ==
    [s EXCEPT !.td.enemiesPool[k].active = FALSE,
              !.td.enemiesAlive = Max(0, @ - 1),
              !.td.enemiesKilled = @ + 1,
              !.td.gold = @ + s.td.enemiesPool[k].reward,
              !.g.kills = @ + 1]

\* Enemy.takeDamage
GenesisTakeDamage(s, k, dmg) ==
    LET s1 == [s EXCEPT !.td.enemiesPool[k].hp = @ - dmg]
    IN  IF s1.td.enemiesPool[k].hp <= 0 THEN GenesisDie(s1, k) ELSE s1

\* CastleWall.takeDamage
CastleWallTakeDamage(s, dmg) ==
    LET mitigated == Max(0, dmg - s.td.castle.armor)
        s1 == [s EXCEPT !.td.castle.hp = @ - mitigated * 10000]
    IN  IF s1.td.castle.hp <= 0
        THEN StopGameGenesis([s1 EXCEPT !.td.castle.hp = 0])
        ELSE s1

\* Enemy.update(dt) and what update does with an enemy that has reached the castle
GenesisEnemy(s, k, ms) ==
    LET e  == s.td.enemiesPool[k]
        x  == e.x + Sign(120 * Px - e.x) * e.speed * ms * 6
        s1 == [s EXCEPT !.td.enemiesPool[k].x = x,
                        !.td.enemiesPool[k].targetReached =
                            e.targetReached \/ Abs(x - 120 * Px) < 6 * Px]
    IN  IF s1.td.enemiesPool[k].targetReached
        THEN LET s2 == CastleWallTakeDamage(s1, (500 + 5 * e.maxHp + 50) \div 100)
             IN  [s2 EXCEPT !.td.enemiesPool[k].active = FALSE,
                            !.td.enemiesAlive = Max(0, @ - 1),
                            !.g.arrivals = @ + 1]
        ELSE s1

RECURSIVE GenesisEnemies(_, _, _)
GenesisEnemies(s, k, ms) ==
    IF k > Len(s.td.enemiesPool) THEN s
    ELSE GenesisEnemies(IF s.td.enemiesPool[k].active THEN GenesisEnemy(s, k, ms) ELSE s,
                        k + 1, ms)

\* Projectile.update(dt) and the collision check of update
GenesisProjectile(s, i, ms) ==
    LET p   == s.td.projectilesPool[i]
        x   == p.x + p.vx * ms * (Px \div 1000)
        s1  == [s EXCEPT !.td.projectilesPool[i].x = x,
                         !.td.projectilesPool[i].active = ~(s.now - p.spawn > p.ttl)]
        hit == {k \in 1..Len(s.td.enemiesPool) :
                   /\ s.td.enemiesPool[k].active
                   /\ 3 * Hypot(s.td.enemiesPool[k].x - x,
                                (s.td.enemiesPool[k].y - p.y) * Px)
                        < 2 * s.td.enemiesPool[k].size * Px}
    IN  IF hit = {} THEN s1
        ELSE LET k == CHOOSE j \in hit : \A n \in hit : j <= n
             IN  [GenesisTakeDamage(s1, k, p.damage)
                     EXCEPT !.td.projectilesPool[i].active = FALSE]

RECURSIVE GenesisProjectiles(_, _, _)
GenesisProjectiles(s, i, ms) ==
    IF i > Len(s.td.projectilesPool) THEN s
    ELSE GenesisProjectiles(IF s.td.projectilesPool[i].active
                            THEN GenesisProjectile(s, i, ms) ELSE s,
                            i + 1, ms)

\* Tower.findTarget: the pool indices of the closest active enemy in range (the
\* first of the pool among equals), or none
FindTarget(s) ==
    LET t == s.td.tower
        d(k) == Hypot(s.td.enemiesPool[k].x - t.x * Px, (s.td.enemiesPool[k].y - t.y) * Px)
        inRange == {k \in 1..Len(s.td.enemiesPool) :
                       s.td.enemiesPool[k].active /\ d(k) <= t.range * Px}
    IN  {k \in inRange : \A j \in inRange : d(k) < d(j) \/ (d(k) = d(j) /\ k <= j)}

\* Tower.shootAt(target), with the outcome of Math.random() * 100 < crit
ShootAt(s, k, crit) ==
    LET t    == s.td.tower
        e    == s.td.enemiesPool[k]
        dmg  == Min(t.damage * (IF crit THEN 2 ELSE 1), 10000)
        shot == [active |-> TRUE, x |-> t.x * Px, y |-> t.y,
                 vx |-> Sign(e.x - t.x * Px) * 900, damage |-> dmg,
                 spawn |-> s.now, ttl |-> projectileLifetime]
        free == {i \in 1..Len(s.td.projectilesPool) : ~s.td.projectilesPool[i].active}
        s1   == IF free # {}
                THEN [s EXCEPT !.td.projectilesPool[CHOOSE i \in free : \A j \in free : i <= j]
                                   = shot]
                ELSE [s EXCEPT !.td.projectilesPool = Append(@, shot)]
    IN  [s1 EXCEPT !.td.tower.lastShot = s.now]

\* the tower actions of update: canShoot, findTarget, shootAt
GenesisTower(s, crit) ==
    LET t == s.td.tower
    IN  IF (s.now - t.lastShot) * Min(t.fireRate, 1000) >= 100 * 1000 /\ FindTarget(s) # {}
        THEN ShootAt(s, CHOOSE k \in FindTarget(s) : TRUE, crit)
        ELSE s

\* CastleWall.update(dt): regen 0.02 hp per second
CastleWallUpdate(s, ms) ==
    [s EXCEPT !.td.castle.hp = Min(s.td.castle.maxHp, @ + (2 * ms) \div 10)]

\* update(dt)
GenesisUpdate(s, ms, y, crit) ==
    CastleWallUpdate(
        GenesisTower(
            GenesisProjectiles(
                GenesisEnemies(GenesisWaveUpdate(s, ms, y), 1, ms), 1, ms), crit), ms)

\* tdClamp
TdClamp(v) == Min(60, Max(8, v))

\* tdLoop(ts), ts being the clock
TdLoop(s, y, crit) ==
    IF ~s.td.running THEN [s EXCEPT !.frame = 0]
    ELSE LET lastTime == IF s.td.lastTime = 0 THEN s.now ELSE s.td.lastTime
             s1 == [s EXCEPT !.td.lastTime = s.now]
         IN  [GenesisUpdate(s1, TdClamp(s.now - lastTime), y, crit) EXCEPT !.frame = 1]

GenesisWorld ==
    [td |-> TDState, timers |-> timers, now |-> clock, frame |-> animationFrameId,
     g |-> ghost]

\* what is followed: the waves, the starts, the shots in flight and the clock
GenesisWithin(s) ==
    /\ s.td.waveManager.wave <= GenesisWaves
    /\ s.g.starts <= GenesisStarts
    /\ Len(s.td.projectilesPool) <= GenesisShots
    /\ s.now <= (IF s.g.scope = "genesis" THEN GenesisClock ELSE LanesClock)

GenesisCommit(s, op) ==
    /\ GenesisWithin(s)
    /\ TDState' = s.td
    /\ timers' = s.timers
    /\ clock' = s.now
    /\ animationFrameId' = s.frame
    /\ ghost' = [s.g EXCEPT !.op = op,
                            !.reset = IF op = "startGameGenesis" THEN @ ELSE FALSE]
    /\ UNCHANGED <<revision, page, UpgradeLevels, SkillLevels, MetaUpgrades,
                   localStorage, gamePath, skillsModal, dt, canvasHeight,
                   startButton>>

\* a timeout is due
Due == \E i \in 1..Len(timers) : timers[i] <= clock

\* the page calls startGameGenesis
CallStartGameGenesis ==
    /\ ghost.scope = "genesis" \/ ghost.starts = 0
    /\ ~TDState.running
    /\ GenesisCommit(StartGameGenesis(GenesisWorld), "startGameGenesis")

\* the Escape key
KeyEscape ==
    /\ ghost.scope = "genesis"
    /\ TDState.running
    /\ GenesisCommit(StopGameGenesis(GenesisWorld), "stopGameGenesis")

\* the space key
KeySpace ==
    /\ ghost.scope = "genesis"
    /\ GenesisCommit(GenesisStartNextWave(GenesisWorld), "startNextWave")

\* a setTimeout callback that is due runs: startNextWave
Timeout ==
    /\ Due
    /\ LET i == CHOOSE j \in 1..Len(timers) :
                    timers[j] <= clock /\ \A n \in 1..(j - 1) : timers[n] > clock
           s == [GenesisWorld EXCEPT
                    !.timers = [n \in 1..(Len(timers) - 1) |->
                                   IF n < i THEN timers[n] ELSE timers[n + 1]]]
       IN  GenesisCommit(GenesisStartNextWave(s), "timeout")

\* the next frame: the requested tdLoop callback runs, GenesisFrameTime later
Frame ==
    /\ animationFrameId = 1
    /\ ~Due
    /\ \E y \in (IF ghost.scope = "genesis" THEN {300} ELSE SpawnYs) : \E crit \in BOOLEAN :
          GenesisCommit(TdLoop([GenesisWorld EXCEPT !.now = @ + GenesisFrameTime], y, crit),
                        "tdLoop")

\* time passes while no frame is requested
Wait ==
    /\ animationFrameId = 0
    /\ ~Due
    /\ ghost.starts > 0
    /\ GenesisCommit([GenesisWorld EXCEPT !.now = @ + GenesisFrameTime], "wait")

InitGenesis ==
    \E scope \in {"genesis", "lanes"} :
        LET w == PageLoad(8, FreshStorage(8), NewGhost(scope))
        IN  /\ revision = 3
            /\ TDState = InitTDState
            /\ UpgradeLevels = w.ul
            /\ SkillLevels = w.sl
            /\ MetaUpgrades = w.mu
            /\ localStorage = w.ls
            /\ gamePath = w.path
            /\ timers = <<>>
            /\ skillsModal = w.modal
            /\ animationFrameId = 0
            /\ clock = 0
            /\ dt = 0
            /\ canvasHeight = GenesisCanvasHeight
            /\ startButton = w.start
            /\ page = w.page
            /\ ghost = NewGenesisGhost(scope)

NextGenesis ==
    \/ CallStartGameGenesis
    \/ KeyEscape
    \/ KeySpace
    \/ Timeout
    \/ Frame
    \/ Wait

SpecGenesis == InitGenesis /\ [][NextGenesis]_vars

\* C39: in the fixed-pool revision the counter TDState.enemiesAlive equals the
\* number of active enemies in enemiesPool in every reachable state, across
\* spawns, kills, castle arrivals and stop and restart of the game, so that a
\* wave is declared complete only when no enemy is active.
C39_EnemiesAliveCountsActive ==
    revision = 3 => TDState.enemiesAlive = ActiveInPool(TDState)

====
